---------------------------- MODULE Spec2Model ----------------------------
(***************************************************************************)
(* A model of the concurrent ingestion-and-reconciliation engine of the    *)
(* disposable-email-domains repository.                                    *)
(*                                                                         *)
(*   Spec      the aggregation driver of src/src/fetch/domains.ts: main,   *)
(*             fetchDomains, throttlePromises, the fetch tasks, fetchData  *)
(*             and processDomains.                                         *)
(*   FairSpec  Spec with the fairness the JavaScript event loop gives:     *)
(*             a runnable continuation is eventually run.                  *)
(*                                                                         *)
(* One action is one run-to-completion block of the event loop: the code   *)
(* between two suspension points of one async function.                    *)
(***************************************************************************)
EXTENDS Integers, Sequences, FiniteSets, Bags, TLC

(***************************************************************************)
(* Generic helpers.                                                        *)
(***************************************************************************)
Range(s) == { s[i] : i \in DOMAIN s }

RECURSIVE SeqToBag(_)
SeqToBag(s) ==
    IF s = << >> THEN EmptyBag ELSE SetToBag({Head(s)}) (+) SeqToBag(Tail(s))

(***************************************************************************)
(* Strings.  The candidate strings of a run are drawn from a finite pool    *)
(* of raw tokens ("example.com", " Evil.TK ", a quoted "example.com", the   *)
(* empty line, a comment line, "not a domain", ...); the string methods    *)
(* the code calls are tabulated on it.                                     *)
(***************************************************************************)
\* String.prototype.trim().toLowerCase() on the pool.
TrimLower(s) ==
    CASE s = " Evil.TK " -> "evil.tk"
      [] s = " B.Test" -> "b.test"
      [] OTHER -> s

\* String.prototype.replaceAll(/"/g, '') on the pool.
StripQuotes(s) == IF s = "\"example.com\"" THEN "example.com" ELSE s

\* String.prototype.startsWith('#') on the pool.
StartsWithHash(s) == s = "# comment"

\* validateDomain of ../utils/validate-domain: domain syntax and a known TLD.
ValidDomains ==
    { "example.com", "evil.tk", "a.test", "b.test", "c.test", "d.test", "e.test" }

validateDomain(d) == d \in ValidDomains

(***************************************************************************)
(* The sources of ./aggregate-domains, in the order fetchDomains lists     *)
(* them: allowlist_txt, blacklists_txt, blacklists_json, blacklists_csv.   *)
(***************************************************************************)
NoKey == "null"
NoCol == -1

Sources ==
    << [list |-> "allow", key |-> NoKey,     col |-> NoCol],
       [list |-> "deny",  key |-> NoKey,     col |-> NoCol],
       [list |-> "deny",  key |-> "domains", col |-> NoCol],
       [list |-> "deny",  key |-> NoKey,     col |-> 0] >>

NTasks == Len(Sources)

Tasks == 1..NTasks

MAX_CONCURRENT_REQUESTS == 5

\* The largest limit below MAX_CONCURRENT_REQUESTS that throttlePromises is run with.
MaxLimit == 2

Limits == (1..MaxLimit) \cup {MAX_CONCURRENT_REQUESTS}

(***************************************************************************)
(* What a source can answer.  net: the transport outcome of fetch(url);    *)
(* ok: response.ok; lines: the body split on line breaks, each line split  *)
(* on ','; valid/json: whether the body parses as JSON and to what.        *)
(***************************************************************************)
JList(v) == [t |-> "list", v |-> v, f |-> << >>]
JObject(f) == [t |-> "object", v |-> << >>, f |-> f]
JString == [t |-> "string", v |-> << >>, f |-> << >>]
JNull == [t |-> "null", v |-> << >>, f |-> << >>]

Response(net, ok, lines, valid, json) ==
    [net |-> net, ok |-> ok, lines |-> lines, valid |-> valid, json |-> json]

\* Bodies of plain sources: no line holds a ','.
TextResponses ==
    { Response("ok", TRUE, <<<<"example.com">>>>, FALSE, JString),
      Response("ok", TRUE,
               <<<<"example.com">>, <<" Evil.TK ">>, <<"# comment">>, <<"">>>>,
               FALSE, JString) }

\* Bodies of delimited sources.
CsvResponses ==
    { Response("ok", TRUE,
               <<<<"\"example.com\"", "x">>, <<"# comment">>, <<"">>>>, FALSE, JString),
      Response("ok", TRUE, <<<<"not a domain", "x">>, <<" Evil.TK ">>>>, FALSE, JString) }

JsonResponses ==
    { Response("ok", TRUE, << >>, TRUE, JObject(JList(<<"evil.tk", "not a domain">>))),
      Response("ok", TRUE, << >>, TRUE, JObject(JString)),
      Response("ok", TRUE, << >>, TRUE, JList(<<"example.com">>)),
      Response("ok", TRUE, << >>, FALSE, JString) }

FailedResponses ==
    { Response("error", FALSE, << >>, FALSE, JString),
      Response("ok", FALSE, << >>, FALSE, JString) }

Responses(src) ==
    (IF src.key # NoKey THEN JsonResponses
     ELSE IF src.col # NoCol THEN CsvResponses
     ELSE TextResponses) \cup FailedResponses

\* How a fetch ended, as the error taxonomy names it.
Outcome(resp, src) ==
    IF resp.net # "ok" THEN "transport"
    ELSE IF ~resp.ok THEN "http"
    ELSE IF src.key # NoKey /\ ~resp.valid THEN "parse"
    ELSE "ok"

\* json[key]: the member of an object; undefined (not a list) otherwise.
Member(json, key) ==
    IF json.t = "object" /\ key = "domains" THEN json.f ELSE JString

\* A line of a plain body, which the plain branch does not split.
WholeLine(parts) == parts[1]

\* parts[col]?.trim().toLowerCase().replaceAll(/"/g, '') || ''
Column(parts, col) ==
    IF col + 1 \in DOMAIN parts THEN StripQuotes(TrimLower(parts[col + 1])) ELSE ""

Kept(line) == line # "" /\ ~StartsWithHash(line)

\* Whether the try block of fetchData throws: fetch rejects, the status is not
\* OK, response.json() fails to parse, or json[key] is read off null.
TryThrows(resp, key) ==
    \/ resp.net # "ok"
    \/ ~resp.ok
    \/ key # NoKey /\ ~resp.valid
    \/ key # NoKey /\ key # "." /\ resp.valid /\ resp.json.t = "null"

\* The try block reading json[key] whatever the key, '.' included.
TryReturnsKeyed(resp, key, col) ==
    IF key # NoKey THEN
        LET data == Member(resp.json, key)
        IN  IF data.t = "list" THEN data.v ELSE << >>
    ELSE IF col # NoCol THEN
        SelectSeq([i \in DOMAIN resp.lines |-> Column(resp.lines[i], col)], Kept)
    ELSE
        SelectSeq([i \in DOMAIN resp.lines |-> TrimLower(WholeLine(resp.lines[i]))], Kept)

\* What the try block returns when it does not throw.
TryReturns(resp, key, col) ==
    IF key # NoKey THEN
        LET json == resp.json
            data == IF key = "." THEN json ELSE Member(json, key)
        IN  IF data.t = "list" THEN data.v ELSE << >>
    ELSE IF col # NoCol THEN
        SelectSeq([i \in DOMAIN resp.lines |-> Column(resp.lines[i], col)], Kept)
    ELSE
        SelectSeq([i \in DOMAIN resp.lines |-> TrimLower(WholeLine(resp.lines[i]))], Kept)

\* fetchData without its catch: a throw of the try block rejects the promise.
fetchDataNoCatch(resp, key, col) ==
    IF TryThrows(resp, key)
    THEN [rejected |-> TRUE, value |-> << >>]
    ELSE [rejected |-> FALSE, value |-> TryReturns(resp, key, col)]

\* fetchData: how its promise settles.  The catch turns every throw of the try
\* block into the empty list.
fetchData(resp, key, col) ==
    IF TryThrows(resp, key)
    THEN [rejected |-> FALSE, value |-> << >>]
    ELSE [rejected |-> FALSE, value |-> TryReturns(resp, key, col)]

(***************************************************************************)
(* The local allowlist file ./data/allow_list.txt.                         *)
(***************************************************************************)
LocalFiles ==
    { << >>, <<"example.com", "# comment", "">>, <<"not a domain">> }

LoadAllowlist(exists, content) ==
    IF ~exists THEN {}
    ELSE { TrimLower(l) : l \in { x \in Range(content) : TrimLower(x) # "" /\ ~StartsWithHash(x) } }

\* The loaded lines are dropped.
AddLocalSkipped(allow, lines) == allow

\* allowlistLines.forEach(domain => allowlistSet.add(domain))
AddLocal(allow, lines) == allow \cup lines

(***************************************************************************)
(* State of one run of main.                                               *)
(***************************************************************************)
VARIABLES
    allowlistSet,       \* Set<string>, module scope
    disposables,        \* Set<string>, module scope
    limit,              \* the limit throttlePromises is called with
    taskState,          \* per task: pending | running | fulfilled | recorded | rejected
    taskDomains,        \* per task: the closure's local `domains`
    fetchOutcome,       \* per task: none | ok | transport | http | parse
    results,            \* throttlePromises: results
    executing,          \* throttlePromises: executing, as task numbers
    nextTask,           \* throttlePromises: the next task of the for loop
    tpc,                \* throttlePromises: idle | race | all | resolved | rejected
    awaited,            \* the promises handed to Promise.race / Promise.all
    awaitResult,        \* pending | fulfilled | rejected: how that promise settled
    mpc,                \* main: init | fetching | writing | done | exit1
    publishedDisposable,\* the argument of addToDisposableList
    publishedAllow      \* the argument of addToAllowlist

fetchVars ==
    << allowlistSet, disposables, limit, taskState, taskDomains, fetchOutcome,
       results, executing, nextTask, tpc, awaited, awaitResult, mpc,
       publishedDisposable, publishedAllow >>

(***************************************************************************)
(* The three scrapers (smailpro, disposablemail, mailtemp).  Each runs one *)
(* session per browser engine of BROWSERS (./utils/launch) in parallel.    *)
(***************************************************************************)
Providers == {"smailpro", "disposablemail", "mailtemp"}

BROWSERS == {"chromium", "firefox"}

\* The engine whose session is looked at more closely.
Observed == "chromium"

MAX_RETRIES == 3
RETRY_DELAY_MS == 2000
DELAY_BETWEEN_RETRIES == 2000
DISPOSABLE_RETRY_DELAY == 2000
MAX_EMAIL_CHANGES_SMAILPRO == 15
MAX_EMAIL_CHANGES_DISPOSABLE == 5

\* What the address display of a provider page can read.
EmailTexts == {"u@B.Test ", "u@bad domain"}

\* extractDomain of ../utils/extract-domain: the part after the '@'.
extractDomain(emailText) ==
    CASE emailText = "u@B.Test " -> "B.Test "
      [] emailText = "u@a.test" -> "a.test"
      [] emailText = "u@c.test" -> "c.test"
      [] emailText = "u@d.test" -> "d.test"
      [] emailText = "u@e.test" -> "e.test"
      [] OTHER -> "bad domain"

\* .trim().toLowerCase().replace(/\s+/g, '').replace(/\\n/g, '') on the pool.
NormalizeScraped(d) ==
    IF d = "B.Test " THEN "b.test"
    ELSE IF d = "bad domain" THEN "baddomain"
    ELSE d

NoDomain == "<null>"
NoEmail == "<null>"

\* What the options of the mailtemp domain selector can read.
OptionTexts == {"a.test", " B.Test", ""}

VARIABLES
    provider,           \* the scraper that runs
    sess,               \* per engine: the state of its scrapeWithBrowser call
    dpc,                \* the scraper's top-level function: idle | waiting | done | exit1
    processed           \* the argument of processDomainsResults

scraperVars == << provider, sess, dpc, processed >>

(***************************************************************************)
(* The call of extractDomainsFromPage of one session, as an observer of    *)
(* the page sees it.                                                       *)
(***************************************************************************)
VARIABLES
    iterations,         \* how often the body of the extraction loop was entered
    failure,            \* the last iteration: none | ok | swallowed | thrown | unchanged
    clean               \* every iteration so far read a new valid address and no sub-step failed

observerVars == << iterations, failure, clean >>

(***************************************************************************)
(* One call of a pure function of the program: which one, its argument,    *)
(* and what it returned.                                                   *)
(***************************************************************************)
VARIABLES
    fn,                 \* the function called, "none" when none is
    arg,                \* its argument
    out,                \* what it returned
    returned            \* whether it has returned

callVars == << fn, arg, out, returned >>

(***************************************************************************)
(* A record of the run, kept beside the program's own state.               *)
(***************************************************************************)
VARIABLES
    localAllow,         \* the domains loaded from the local allowlist file
    invoked,            \* throttlePromises: the tasks in the order task() was called
    load,               \* per task: how many started tasks were unsettled at its call
    fulfilledOrder,     \* the tasks in the order their promises were fulfilled
    closeFailed         \* whether the last browser.close() of the observed session failed

historyVars == << localAllow, invoked, load, fulfilledOrder, closeFailed >>

(***************************************************************************)
(* State of one run of updateTldList of src/src/fetch/tlds.ts.             *)
(***************************************************************************)
VARIABLES
    upc,                \* updateTldList: idle | fetch | mkdir | write | done | exit1
    tldResponse,        \* what the IANA URL answers
    tsFile,             \* the content of ./src/data/tlds.ts
    txtFile,            \* the content of ./data/tlds.txt
    writes              \* per output file: none | pending | written | failed

tldVars == << upc, tldResponse, tsFile, txtFile, writes >>

vars == << fetchVars, scraperVars, observerVars, callVars, historyVars, tldVars >>

NotPublished == {"<none>"}

NotInvoked == -1

\* The output files of updateTldList and the marks of what is not there.
OutputFiles == {"tlds.ts", "tlds.txt"}
Unwritten == << "<unwritten>" >>
NoResponse == [net |-> "none", ok |-> FALSE, lines |-> << >>]

(***************************************************************************)
(* processDomains, as the pair of sets it leaves.                          *)
(***************************************************************************)
\* The deny branch without its look at the Allow Set.
RECURSIVE processDomainsNoVeto(_, _, _, _)
processDomainsNoVeto(domains, isAllowlist, allow, disp) ==
    IF domains = << >> THEN [allow |-> allow, disp |-> disp]
    ELSE LET domain == Head(domains) IN
         IF validateDomain(domain) THEN
            IF isAllowlist THEN
                processDomainsNoVeto(Tail(domains), isAllowlist, allow \cup {domain}, disp)
            ELSE processDomainsNoVeto(Tail(domains), isAllowlist, allow, disp \cup {domain})
         ELSE processDomainsNoVeto(Tail(domains), isAllowlist, allow, disp)

\* The allow branch skips a candidate that is in the Disposable Set.
RECURSIVE processDomainsExclusive(_, _, _, _)
processDomainsExclusive(domains, isAllowlist, allow, disp) ==
    IF domains = << >> THEN [allow |-> allow, disp |-> disp]
    ELSE LET domain == Head(domains) IN
         IF validateDomain(domain) THEN
            IF isAllowlist THEN
                IF domain \notin disp THEN
                    processDomainsExclusive(Tail(domains), isAllowlist, allow \cup {domain}, disp)
                ELSE processDomainsExclusive(Tail(domains), isAllowlist, allow, disp)
            ELSE IF domain \notin allow THEN
                processDomainsExclusive(Tail(domains), isAllowlist, allow, disp \cup {domain})
            ELSE processDomainsExclusive(Tail(domains), isAllowlist, allow, disp)
         ELSE processDomainsExclusive(Tail(domains), isAllowlist, allow, disp)

\* The allow branch also takes the candidate out of the Disposable Set.
RECURSIVE processDomainsEvicting(_, _, _, _)
processDomainsEvicting(domains, isAllowlist, allow, disp) ==
    IF domains = << >> THEN [allow |-> allow, disp |-> disp]
    ELSE LET domain == Head(domains) IN
         IF validateDomain(domain) THEN
            IF isAllowlist THEN
                processDomainsEvicting(Tail(domains), isAllowlist,
                                       allow \cup {domain}, disp \ {domain})
            ELSE IF domain \notin allow THEN
                processDomainsEvicting(Tail(domains), isAllowlist, allow, disp \cup {domain})
            ELSE processDomainsEvicting(Tail(domains), isAllowlist, allow, disp)
         ELSE processDomainsEvicting(Tail(domains), isAllowlist, allow, disp)

RECURSIVE processDomains(_, _, _, _)
processDomains(domains, isAllowlist, allow, disp) ==
    IF domains = << >> THEN [allow |-> allow, disp |-> disp]
    ELSE LET domain == Head(domains) IN
         IF validateDomain(domain) THEN
            IF isAllowlist THEN
                processDomains(Tail(domains), isAllowlist, allow \cup {domain}, disp)
            ELSE IF domain \notin allow THEN
                processDomains(Tail(domains), isAllowlist, allow, disp \cup {domain})
            ELSE processDomains(Tail(domains), isAllowlist, allow, disp)
         ELSE processDomains(Tail(domains), isAllowlist, allow, disp)

(***************************************************************************)
(* throttlePromises.                                                       *)
(***************************************************************************)
\* Off by one: the loop waits only once the limit is exceeded.
AtLimitExceeded(len, lim) == len > lim

\* executing.length >= limit
AtLimit(len, lim) == len >= lim

\* The for loop from task i on, up to its first await or its end: the tasks it
\* starts are i..next-1; wait tells whether it stopped at Promise.race.
RECURSIVE RunLoop(_, _, _)
RunLoop(i, exec, lim) ==
    IF i > NTasks THEN [next |-> i, executing |-> exec, wait |-> FALSE]
    ELSE LET pushed == Append(exec, i) IN
         IF AtLimit(Len(pushed), lim)
         THEN [next |-> i + 1, executing |-> pushed, wait |-> TRUE]
         ELSE RunLoop(i + 1, pushed, lim)

\* executing.indexOf(p), 1-based; 0 when absent.
IndexOf(seq, p) ==
    IF p \in Range(seq) THEN CHOOSE i \in DOMAIN seq : seq[i] = p /\ \A j \in 1..(i-1) : seq[j] # p
    ELSE 0

\* The callback drops the oldest entry of executing instead of its own.
SpliceFirst(seq, p) == IF seq = << >> THEN seq ELSE Tail(seq)

\* executing.splice(executing.indexOf(p), 1); splice(-1, 1) removes the last element.
Splice(seq, p) ==
    LET at == IF IndexOf(seq, p) = 0 THEN Len(seq) ELSE IndexOf(seq, p)
    IN  [ i \in 1..(Len(seq) - (IF seq = << >> THEN 0 ELSE 1)) |-> IF i < at THEN seq[i] ELSE seq[i + 1] ]

\* p of task i is settled once its then-callback has run or the task rejected.
Settled(st, i) == st[i] \in {"recorded", "rejected"}

\* Promise.resolve() in place of Promise.race: fulfilled with nothing settled.
RaceOfNone(ps, st) == "fulfilled"

\* Promise.race(ps): settled as the first settled promise of ps.  At the call
\* that is the first already settled one in array order; later it is the
\* first to settle.
Race(ps, st) ==
    IF \E k \in DOMAIN ps : Settled(st, ps[k])
    THEN LET k == CHOOSE k \in DOMAIN ps :
                     Settled(st, ps[k]) /\ \A j \in 1..(k-1) : ~Settled(st, ps[j])
         IN  IF st[ps[k]] = "rejected" THEN "rejected" ELSE "fulfilled"
    ELSE "pending"

\* Promise.allSettled in place of Promise.all: fulfilled once every promise has
\* settled, rejected never.
AllSettled(ps, st) ==
    IF \A i \in Range(ps) : st[i] \in {"recorded", "rejected"} THEN "fulfilled"
    ELSE "pending"

\* Promise.any in place of Promise.all: fulfilled with the first fulfilment.
PromiseAny(ps, st) ==
    IF \E i \in Range(ps) : st[i] = "recorded" THEN "fulfilled"
    ELSE IF ps = << >> THEN "fulfilled"
    ELSE IF \A i \in Range(ps) : st[i] = "rejected" THEN "rejected"
    ELSE "pending"

\* Promise.all(ps): rejected with the first rejection, fulfilled when all are.
All(ps, st) ==
    IF \E i \in Range(ps) : st[i] = "rejected" THEN "rejected"
    ELSE IF \A i \in Range(ps) : st[i] = "recorded" THEN "fulfilled"
    ELSE "pending"

\* The loop awaits a promise that no task's settling ever settles.
SettleNever(kind, ps, st, was) == was

\* The awaited promise after one more promise settled: a settled promise keeps
\* its state.
Settle(kind, ps, st, was) ==
    IF was # "pending" THEN was
    ELSE IF kind = "race" THEN Race(ps, st)
    ELSE IF kind = "all" THEN All(ps, st)
    ELSE was

\* One synchronous run of the loop of throttlePromises from nextTask on.
LoopFrom(i, exec) ==
    LET run == RunLoop(i, exec, limit)
        st  == [t \in Tasks |-> IF t >= i /\ t < run.next THEN "running" ELSE taskState[t]]
    IN  /\ taskState' = st
        /\ executing' = run.executing
        /\ nextTask' = run.next
        /\ awaited' = run.executing
        /\ IF run.wait
           THEN /\ tpc' = "race"
                /\ awaitResult' = Race(run.executing, st)
           ELSE /\ tpc' = "all"
                /\ awaitResult' = All(run.executing, st)

\* The process is alive and fetchDomains has been called.
Running == mpc \in {"fetching", "writing", "done"}

\* main() -> fetchDomains(): the local allowlist is loaded, the tasks are built
\* and throttlePromises runs up to its first await.
MainStart ==
    /\ mpc = "init"
    /\ \E exists \in BOOLEAN, content \in LocalFiles :
          /\ localAllow' = LoadAllowlist(exists, content)
          /\ allowlistSet' = AddLocal(allowlistSet, LoadAllowlist(exists, content))
    /\ mpc' = "fetching"
    /\ LoopFrom(1, << >>)
    /\ UNCHANGED scraperVars
    /\ UNCHANGED observerVars
    /\ UNCHANGED callVars
    /\ UNCHANGED << invoked, load, fulfilledOrder, closeFailed >>
    /\ UNCHANGED tldVars
    /\ UNCHANGED << disposables, limit, taskDomains, fetchOutcome, results,
                    publishedDisposable, publishedAllow >>

\* The fetch of task i settles: fetchData returns, the closure reconciles the
\* candidates and returns domains.length, and the task's promise is fulfilled.
\* Were fetchData to reject, the closure would reject with it.
FetchSettle(i) ==
    /\ Running
    /\ taskState[i] = "running"
    /\ \E resp \in Responses(Sources[i]) :
          LET got     == fetchData(resp, Sources[i].key, Sources[i].col)
              domains == got.value
              sets    == processDomains(domains, Sources[i].list = "allow",
                                        allowlistSet, disposables)
          IN  /\ fetchOutcome' = [fetchOutcome EXCEPT ![i] = Outcome(resp, Sources[i])]
              /\ IF got.rejected
                 THEN /\ taskState' = [taskState EXCEPT ![i] = "rejected"]
                      /\ UNCHANGED << taskDomains, allowlistSet, disposables >>
                 ELSE /\ taskState' = [taskState EXCEPT ![i] = "fulfilled"]
                      /\ taskDomains' = [taskDomains EXCEPT ![i] = domains]
                      /\ allowlistSet' = sets.allow
                      /\ disposables' = sets.disp
    /\ awaitResult' = Settle(tpc, awaited, taskState', awaitResult)
    /\ UNCHANGED scraperVars
    /\ UNCHANGED observerVars
    /\ UNCHANGED callVars
    /\ UNCHANGED historyVars
    /\ UNCHANGED tldVars
    /\ UNCHANGED << limit, results, executing, nextTask, tpc, awaited,
                    mpc, publishedDisposable, publishedAllow >>

\* The closure of task i throws: its promise, and p with it, is rejected and the
\* then-callback of p never runs.
TaskThrow(i) ==
    /\ Running
    /\ taskState[i] = "running"
    /\ taskState' = [taskState EXCEPT ![i] = "rejected"]
    /\ awaitResult' = Settle(tpc, awaited, taskState', awaitResult)
    /\ UNCHANGED scraperVars
    /\ UNCHANGED observerVars
    /\ UNCHANGED callVars
    /\ UNCHANGED historyVars
    /\ UNCHANGED tldVars
    /\ UNCHANGED << allowlistSet, disposables, limit, taskDomains, fetchOutcome,
                    results, executing, nextTask, tpc, awaited, mpc,
                    publishedDisposable, publishedAllow >>

\* The then-callback of p: results.push(result); executing.splice(indexOf(p), 1).
ThenCallback(i) ==
    /\ Running
    /\ taskState[i] = "fulfilled"
    /\ results' = Append(results, Len(taskDomains[i]))
    /\ executing' = Splice(executing, i)
    /\ taskState' = [taskState EXCEPT ![i] = "recorded"]
    /\ awaitResult' = Settle(tpc, awaited, taskState', awaitResult)
    /\ UNCHANGED scraperVars
    /\ UNCHANGED observerVars
    /\ UNCHANGED callVars
    /\ UNCHANGED historyVars
    /\ UNCHANGED tldVars
    /\ UNCHANGED << allowlistSet, disposables, limit, taskDomains, fetchOutcome,
                    nextTask, tpc, awaited, mpc, publishedDisposable, publishedAllow >>

\* await Promise.race(executing) resumes and the loop goes on.
RaceResume ==
    /\ Running
    /\ tpc = "race"
    /\ awaitResult = "fulfilled"
    /\ LoopFrom(nextTask, executing)
    /\ UNCHANGED scraperVars
    /\ UNCHANGED observerVars
    /\ UNCHANGED callVars
    /\ UNCHANGED historyVars
    /\ UNCHANGED tldVars
    /\ UNCHANGED << allowlistSet, disposables, limit, taskDomains, fetchOutcome,
                    results, mpc, publishedDisposable, publishedAllow >>

\* Promise.all(executing).then(() => results) is fulfilled.
ThrottleResolve ==
    /\ Running
    /\ tpc = "all"
    /\ awaitResult = "fulfilled"
    /\ tpc' = "resolved"
    /\ UNCHANGED scraperVars
    /\ UNCHANGED observerVars
    /\ UNCHANGED callVars
    /\ UNCHANGED historyVars
    /\ UNCHANGED tldVars
    /\ UNCHANGED << allowlistSet, disposables, limit, taskState, taskDomains,
                    fetchOutcome, results, executing, nextTask, awaited, awaitResult,
                    mpc, publishedDisposable, publishedAllow >>

\* The awaited race or all is rejected: throttlePromises rejects.
ThrottleReject ==
    /\ Running
    /\ tpc \in {"race", "all"}
    /\ awaitResult = "rejected"
    /\ tpc' = "rejected"
    /\ UNCHANGED scraperVars
    /\ UNCHANGED observerVars
    /\ UNCHANGED callVars
    /\ UNCHANGED historyVars
    /\ UNCHANGED tldVars
    /\ UNCHANGED << allowlistSet, disposables, limit, taskState, taskDomains,
                    fetchOutcome, results, executing, nextTask, awaited, awaitResult,
                    mpc, publishedDisposable, publishedAllow >>

\* fetchDomains returns; main hands [...disposables] and [...allowlistSet] over.
MainPublish ==
    /\ mpc = "fetching"
    /\ tpc = "resolved"
    /\ publishedDisposable' = disposables
    /\ publishedAllow' = allowlistSet
    /\ mpc' = "writing"
    /\ UNCHANGED scraperVars
    /\ UNCHANGED observerVars
    /\ UNCHANGED callVars
    /\ UNCHANGED historyVars
    /\ UNCHANGED tldVars
    /\ UNCHANGED << allowlistSet, disposables, limit, taskState, taskDomains,
                    fetchOutcome, results, executing, nextTask, tpc, awaited,
                    awaitResult >>

\* Promise.all of the two publisher calls settles.
PublisherSettle ==
    /\ mpc = "writing"
    /\ \E ok \in BOOLEAN : mpc' = IF ok THEN "done" ELSE "exit1"
    /\ UNCHANGED scraperVars
    /\ UNCHANGED observerVars
    /\ UNCHANGED callVars
    /\ UNCHANGED historyVars
    /\ UNCHANGED tldVars
    /\ UNCHANGED << allowlistSet, disposables, limit, taskState, taskDomains,
                    fetchOutcome, results, executing, nextTask, tpc, awaited,
                    awaitResult, publishedDisposable, publishedAllow >>

\* fetchDomains rejects: the catch of main logs and calls process.exit(1).
MainCatch ==
    /\ mpc = "fetching"
    /\ tpc = "rejected"
    /\ mpc' = "exit1"
    /\ UNCHANGED scraperVars
    /\ UNCHANGED observerVars
    /\ UNCHANGED callVars
    /\ UNCHANGED historyVars
    /\ UNCHANGED tldVars
    /\ UNCHANGED << allowlistSet, disposables, limit, taskState, taskDomains,
                    fetchOutcome, results, executing, nextTask, tpc, awaited,
                    awaitResult, publishedDisposable, publishedAllow >>

Next ==
    \/ MainStart
    \/ \E i \in Tasks : FetchSettle(i)
    \/ \E i \in Tasks : TaskThrow(i)
    \/ \E i \in Tasks : ThenCallback(i)
    \/ RaceResume
    \/ ThrottleResolve
    \/ ThrottleReject
    \/ MainPublish
    \/ PublisherSettle
    \/ MainCatch

(***************************************************************************)
(* scrapeWithBrowser: one session per engine.  A session is a record:      *)
(*   phase       idle | launch | navigate | init | extract | backoff |     *)
(*               closing | fulfilled | rejected: the await it stands at    *)
(*   attempt, retryCount, success, lastError, domains                      *)
(*               the locals of scrapeWithBrowser                           *)
(*   found, successfulChanges, changeAttempts, lastEmailText               *)
(*               the locals of extractDomainsFromPage                      *)
(*   pending     how the try block ended while finally awaits close():     *)
(*               return | throw | retry                                    *)
(*   timer       the delay of the pending setTimeout                       *)
(*   open        browsers launched and not yet closed                      *)
(*   error       what the promise of scrapeWithBrowser rejected with       *)
(*   tick        the parity of the iterations of the extraction loop       *)
(* and, as a record of the run: launches (attempts started), failures      *)
(* (attempts failed), lastFailure (the error of the last failed attempt)   *)
(* and gap (the delay waited since the last failed attempt).               *)
(***************************************************************************)
IdleSession ==
    [phase |-> "idle", attempt |-> 1, retryCount |-> 0, success |-> FALSE,
     lastError |-> "none", domains |-> {}, found |-> {}, successfulChanges |-> 0,
     changeAttempts |-> 0, lastEmailText |-> "", pending |-> "none", timer |-> 0,
     open |-> 0, error |-> "none", tick |-> 0,
     launches |-> 0, failures |-> 0, lastFailure |-> "none", gap |-> 0]

\* await launchBrowserWithProxy(browserType): an attempt starts.
CallLaunch(s) == [s EXCEPT !.phase = "launch", !.launches = @ + 1]

\* The browser is launched.
Launched(s) == [s EXCEPT !.phase = "navigate", !.open = @ + 1]

\* await browser.close() in the finally block.
CallClose(s, pending) == [s EXCEPT !.phase = "closing", !.pending = pending]

\* The browser is left behind: close() is not counted.
ClosedLeaving(s) == [s EXCEPT !.pending = "none"]

\* browser.close() has settled; a failure of it is caught and logged.
Closed(s) == [s EXCEPT !.open = @ - 1, !.pending = "none"]

\* await browser.close() without the catch: a failure is thrown by the finally
\* block.
CloseOutcomeThrowing(closed) == IF closed THEN "settled" ELSE "thrown"

\* await browser.close().catch(...): the handler logs the failure, so the
\* awaited promise is fulfilled whether the browser closed or not.
CloseOutcome(closed) == "settled"

\* await new Promise(resolve => setTimeout(resolve, ms))
Sleep(s, ms) == [s EXCEPT !.phase = "backoff", !.timer = ms]

\* The timer has fired.
Slept(s) == [s EXCEPT !.gap = s.timer, !.timer = 0]

\* An attempt has failed with an error of this kind.
Failed(s, kind) ==
    [s EXCEPT !.failures = @ + 1, !.lastFailure = kind, !.gap = 0]

\* lastError = error
RecordError(s, kind) == [s EXCEPT !.lastError = kind]

Reject(s, kind) == [s EXCEPT !.phase = "rejected", !.error = kind]

Fulfil(s) == [s EXCEPT !.phase = "fulfilled"]

\* processEmailDomain / extractAndValidateDomain: the normalised domain of an
\* address, or null.
processEmailDomain(emailText) ==
    LET normalizedDomain == NormalizeScraped(extractDomain(emailText))
    IN  IF validateDomain(normalizedDomain) THEN normalizedDomain ELSE NoDomain

Record(found, domain) == IF domain # NoDomain THEN found \cup {domain} ELSE found

(***************************************************************************)
(* smailpro.                                                               *)
(***************************************************************************)
\* One attempt too many.
SmailproLoopCondOff(s) == s.attempt <= MAX_RETRIES + 1

SmailproLoopCond(s) == s.attempt <= MAX_RETRIES

\* The head of the for loop; after it: throw lastError.
SmailproLoop(s) ==
    IF SmailproLoopCond(s) THEN CallLaunch(s) ELSE Reject(s, s.lastError)

SmailproNextAttempt(s) == SmailproLoop([s EXCEPT !.attempt = @ + 1])

\* launchBrowserWithProxy settled: null is recorded and the loop continues.
SmailproOnLaunch(s, launched) ==
    IF launched THEN Launched(s)
    ELSE SmailproNextAttempt(Failed(RecordError(s, "launch"), "launch"))

\* The browser is closed before the catch sleeps, as in the other two scrapers.
SmailproOnNavigateCloseFirst(s, page) ==
    IF page = "page"
    THEN [s EXCEPT !.phase = "init", !.found = {}, !.successfulChanges = 0]
    ELSE LET s1 == Failed(RecordError(s, "navigation"), "navigation")
         IN  IF s1.attempt < MAX_RETRIES
             THEN Sleep(Closed(s1), RETRY_DELAY_MS * s1.attempt)
             ELSE CallClose(s1, "retry")

\* navigateToPage settled: a null page or a throw lands in the catch, which
\* sleeps before the finally block closes the browser.
SmailproOnNavigate(s, page) ==
    IF page = "page"
    THEN [s EXCEPT !.phase = "init", !.found = {}, !.successfulChanges = 0]
    ELSE LET s1 == Failed(RecordError(s, "navigation"), "navigation")
         IN  IF s1.attempt < MAX_RETRIES
             THEN Sleep(s1, RETRY_DELAY_MS * s1.attempt)
             ELSE CallClose(s1, "retry")

SmailproOnTimer(s) == CallClose(Slept(s), "retry")

\* scrapeWithBrowser returns a fresh, empty set.
SmailproReturnNothing(s) == CallClose([s EXCEPT !.domains = {}], "return")

\* extractDomainsFromPage returns domains; scrapeWithBrowser returns them.
SmailproReturn(s) == CallClose([s EXCEPT !.domains = s.found], "return")

\* while (successfulChanges < MAX_EMAIL_CHANGES)
SmailproWhile(s) ==
    IF s.successfulChanges < MAX_EMAIL_CHANGES_SMAILPRO
    THEN [s EXCEPT !.phase = "extract"]
    ELSE SmailproReturn(s)

\* The throw of initializeEmailChange reaches the catch of scrapeWithBrowser.
SmailproOnInitThrowing(s, ok) ==
    IF ok THEN SmailproWhile(s) ELSE SmailproOnNavigate(s, "throw")

\* initializeEmailChange settled; its throw is caught by the outer try.
SmailproOnInit(s, ok) == IF ok THEN SmailproWhile(s) ELSE SmailproReturn(s)

\* One iteration of the loop: getCurrentEmail, processEmailDomain,
\* generateNewEmail.
SmailproOnIteration(s, emailText, generated) ==
    LET next == [s EXCEPT !.tick = 1 - @] IN
    IF emailText = NoEmail THEN SmailproWhile(next)
    ELSE LET domain == processEmailDomain(emailText)
             s1 == IF domain # NoDomain
                   THEN [next EXCEPT !.found = @ \cup {domain},
                                     !.successfulChanges = @ + 1]
                   ELSE next
         IN  IF generated THEN SmailproWhile(s1) ELSE SmailproReturn(s1)

SmailproOnClose(s) ==
    IF s.pending = "return" THEN Fulfil(Closed(s)) ELSE SmailproNextAttempt(Closed(s))

(***************************************************************************)
(* disposablemail.                                                         *)
(***************************************************************************)
DisposableLoopCond(s) == s.retryCount < MAX_RETRIES /\ ~s.success

\* The head of the while loop; after it: return domains.
DisposableLoop(s) == IF DisposableLoopCond(s) THEN CallLaunch(s) ELSE Fulfil(s)

\* The outer catch.
DisposableCatch(s, kind) ==
    LET s1 == Failed([s EXCEPT !.retryCount = @ + 1], kind)
    IN  IF s1.retryCount >= MAX_RETRIES THEN Reject(s1, kind)
        ELSE Sleep(s1, DISPOSABLE_RETRY_DELAY * s1.retryCount)

DisposableOnLaunch(s, launched) ==
    IF launched THEN Launched(s) ELSE DisposableCatch(s, "launch")

\* extractDomainsFromPage returns; its domains are added and success is set.
DisposableReturn(s) ==
    CallClose([s EXCEPT !.domains = @ \cup s.found, !.success = TRUE], "return")

\* while (changeAttempts < MAX_EMAIL_CHANGES)
DisposableWhile(s) ==
    IF s.changeAttempts < MAX_EMAIL_CHANGES_DISPOSABLE
    THEN [s EXCEPT !.phase = "extract"]
    ELSE DisposableReturn(s)

DisposableOnNavigate(s, page) ==
    IF page = "page"
    THEN DisposableWhile([s EXCEPT !.found = {}, !.lastEmailText = "",
                                   !.changeAttempts = 0])
    ELSE CallClose(s, "throw")

\* One iteration: waitForSelector, waitForEmailText, extractAndValidateDomain,
\* changeEmail and the delay after it.
DisposableOnIteration(s, selected, emailText, changed) ==
    LET s1 == [s EXCEPT !.changeAttempts = @ + 1] IN
    IF ~selected THEN DisposableReturn(s1)
    ELSE IF emailText = NoEmail THEN DisposableWhile(s1)
    ELSE IF emailText = s1.lastEmailText THEN DisposableReturn(s1)
    ELSE LET s2 == [s1 EXCEPT !.lastEmailText = emailText,
                              !.found = Record(@, processEmailDomain(emailText))]
         IN  IF changed THEN DisposableWhile(s2) ELSE DisposableReturn(s2)

DisposableOnClose(s) ==
    IF s.pending = "return" THEN DisposableLoop(Closed(s))
    ELSE DisposableCatch(Closed(s), "navigation")

DisposableOnTimer(s) == DisposableLoop(Slept(s))

(***************************************************************************)
(* mailtemp.                                                               *)
(***************************************************************************)
MailtempLoopCond(s) == s.retryCount < MAX_RETRIES

\* The head of the while loop; after it: throw lastError.
MailtempLoop(s) ==
    IF MailtempLoopCond(s) THEN CallLaunch(s) ELSE Reject(s, s.lastError)

\* The outer catch.
MailtempCatch(s, kind) ==
    LET s1 == Failed(RecordError([s EXCEPT !.retryCount = @ + 1], kind), kind)
    IN  IF s1.retryCount < MAX_RETRIES
        THEN Sleep(s1, DELAY_BETWEEN_RETRIES * s1.retryCount)
        ELSE MailtempLoop(s1)

MailtempOnLaunch(s, launched) ==
    IF launched THEN Launched(s) ELSE MailtempCatch(s, "launch")

MailtempOnNavigate(s, page) ==
    IF page = "page" THEN [s EXCEPT !.phase = "extract", !.found = {}]
    ELSE CallClose(s, "throw")

\* extractDomainsFromPage: the selector is opened and every option that reads
\* as a valid domain is kept; any failure of the set-up gives the empty set.
MailtempOnExtract(s, opened, options) ==
    LET found == IF opened
                 THEN { TrimLower(o) : o \in { x \in options :
                            TrimLower(x) # "" /\ validateDomain(TrimLower(x)) } }
                 ELSE {}
    IN  CallClose([s EXCEPT !.found = found, !.domains = @ \cup found], "return")

MailtempOnClose(s) ==
    IF s.pending = "return" THEN Fulfil(Closed(s))
    ELSE MailtempCatch(Closed(s), "navigation")

MailtempOnTimer(s) == MailtempLoop(Slept(s))

(***************************************************************************)
(* The top-level function of a scraper and the steps of its sessions.      *)
(***************************************************************************)
NotProcessed == {"<none>"}

\* A scraper is started; the aggregation driver does not run in its process.
ScraperInit ==
    /\ provider \in Providers
    /\ sess = [e \in BROWSERS |-> IdleSession]
    /\ dpc = "idle"
    /\ processed = NotProcessed
    /\ allowlistSet = {}
    /\ disposables = {}
    /\ limit = MAX_CONCURRENT_REQUESTS
    /\ taskState = [i \in Tasks |-> "pending"]
    /\ taskDomains = [i \in Tasks |-> << >>]
    /\ fetchOutcome = [i \in Tasks |-> "none"]
    /\ results = << >>
    /\ executing = << >>
    /\ nextTask = 1
    /\ tpc = "idle"
    /\ awaited = << >>
    /\ awaitResult = "pending"
    /\ mpc = "init"
    /\ publishedDisposable = NotPublished
    /\ publishedAllow = NotPublished
    /\ iterations = 0
    /\ failure = "none"
    /\ clean = TRUE
    /\ fn = "none"
    /\ arg = << >>
    /\ out = << >>
    /\ returned = FALSE
    /\ localAllow = {}
    /\ invoked = << >>
    /\ load = [i \in Tasks |-> NotInvoked]
    /\ fulfilledOrder = << >>
    /\ closeFailed = FALSE
    /\ upc = "idle"
    /\ tldResponse = NoResponse
    /\ tsFile = Unwritten
    /\ txtFile = Unwritten
    /\ writes = [f \in OutputFiles |-> "none"]

Step(e, s) == sess' = [sess EXCEPT ![e] = s]

SessionSettled(s) == s.phase \in {"fulfilled", "rejected"}

\* Promise.all in place of Promise.allSettled.
PromiseAll(ss) ==
    IF \E e \in BROWSERS : ss[e].phase = "rejected" THEN "rejected" ELSE "fulfilled"

\* Promise.allSettled never rejects.
PromiseAllSettled(ss) == "fulfilled"

\* BROWSERS.map(browserType => scrapeWithBrowser(browserType)): every session
\* runs up to its first await.
ScrapeStart ==
    /\ dpc = "idle"
    /\ dpc' = "waiting"
    /\ sess' = [e \in BROWSERS |->
                  CASE provider = "smailpro" -> SmailproLoop(sess[e])
                    [] provider = "disposablemail" -> DisposableLoop(sess[e])
                    [] provider = "mailtemp" -> MailtempLoop(sess[e])]
    /\ UNCHANGED << provider, processed >>
    /\ UNCHANGED fetchVars
    /\ UNCHANGED observerVars
    /\ UNCHANGED callVars
    /\ UNCHANGED historyVars
    /\ UNCHANGED tldVars

LaunchSettle(e) ==
    /\ dpc = "waiting"
    /\ sess[e].phase = "launch"
    /\ \E launched \in BOOLEAN :
          Step(e, CASE provider = "smailpro" -> SmailproOnLaunch(sess[e], launched)
                    [] provider = "disposablemail" -> DisposableOnLaunch(sess[e], launched)
                    [] provider = "mailtemp" -> MailtempOnLaunch(sess[e], launched))
    /\ UNCHANGED << provider, dpc, processed >>
    /\ UNCHANGED fetchVars
    /\ UNCHANGED observerVars
    /\ UNCHANGED callVars
    /\ UNCHANGED historyVars
    /\ UNCHANGED tldVars

NavigateSettle(e) ==
    /\ dpc = "waiting"
    /\ sess[e].phase = "navigate"
    /\ \E page \in {"page", "null", "throw"} :
          Step(e, CASE provider = "smailpro" -> SmailproOnNavigate(sess[e], page)
                    [] provider = "disposablemail" -> DisposableOnNavigate(sess[e], page)
                    [] provider = "mailtemp" -> MailtempOnNavigate(sess[e], page))
    /\ UNCHANGED << provider, dpc, processed >>
    /\ UNCHANGED fetchVars
    /\ UNCHANGED observerVars
    /\ UNCHANGED callVars
    /\ UNCHANGED historyVars
    /\ UNCHANGED tldVars

SmailproInit(e) ==
    /\ dpc = "waiting"
    /\ provider = "smailpro"
    /\ sess[e].phase = "init"
    /\ \E ok \in BOOLEAN : Step(e, SmailproOnInit(sess[e], ok))
    /\ UNCHANGED << provider, dpc, processed >>
    /\ UNCHANGED fetchVars
    /\ UNCHANGED observerVars
    /\ UNCHANGED callVars
    /\ UNCHANGED historyVars
    /\ UNCHANGED tldVars

SmailproIteration(e) ==
    /\ dpc = "waiting"
    /\ provider = "smailpro"
    /\ sess[e].phase = "extract"
    /\ \E emailText \in EmailTexts \cup {NoEmail}, generated \in BOOLEAN :
          Step(e, SmailproOnIteration(sess[e], emailText, generated))
    /\ UNCHANGED << provider, dpc, processed >>
    /\ UNCHANGED fetchVars
    /\ UNCHANGED observerVars
    /\ UNCHANGED callVars
    /\ UNCHANGED historyVars
    /\ UNCHANGED tldVars

DisposableIteration(e) ==
    /\ dpc = "waiting"
    /\ provider = "disposablemail"
    /\ sess[e].phase = "extract"
    /\ \E selected \in BOOLEAN, emailText \in EmailTexts \cup {NoEmail},
          changed \in BOOLEAN :
          Step(e, DisposableOnIteration(sess[e], selected, emailText, changed))
    /\ UNCHANGED << provider, dpc, processed >>
    /\ UNCHANGED fetchVars
    /\ UNCHANGED observerVars
    /\ UNCHANGED callVars
    /\ UNCHANGED historyVars
    /\ UNCHANGED tldVars

MailtempExtract(e) ==
    /\ dpc = "waiting"
    /\ provider = "mailtemp"
    /\ sess[e].phase = "extract"
    /\ \E opened \in BOOLEAN, options \in SUBSET OptionTexts :
          Step(e, MailtempOnExtract(sess[e], opened, options))
    /\ UNCHANGED << provider, dpc, processed >>
    /\ UNCHANGED fetchVars
    /\ UNCHANGED observerVars
    /\ UNCHANGED callVars
    /\ UNCHANGED historyVars
    /\ UNCHANGED tldVars

BackoffElapsed(e) ==
    /\ dpc = "waiting"
    /\ sess[e].phase = "backoff"
    /\ Step(e, CASE provider = "smailpro" -> SmailproOnTimer(sess[e])
                 [] provider = "disposablemail" -> DisposableOnTimer(sess[e])
                 [] provider = "mailtemp" -> MailtempOnTimer(sess[e]))
    /\ UNCHANGED << provider, dpc, processed >>
    /\ UNCHANGED fetchVars
    /\ UNCHANGED observerVars
    /\ UNCHANGED callVars
    /\ UNCHANGED historyVars
    /\ UNCHANGED tldVars

CloseSettle(e) ==
    /\ dpc = "waiting"
    /\ sess[e].phase = "closing"
    /\ \E closed \in BOOLEAN :
          Step(e, CASE provider = "smailpro" -> SmailproOnClose(sess[e])
                    [] provider = "disposablemail" -> DisposableOnClose(sess[e])
                    [] provider = "mailtemp" -> MailtempOnClose(sess[e]))
    /\ UNCHANGED << provider, dpc, processed >>
    /\ UNCHANGED fetchVars
    /\ UNCHANGED observerVars
    /\ UNCHANGED callVars
    /\ UNCHANGED historyVars
    /\ UNCHANGED tldVars

\* Only the result of the first engine is looked at.
FirstDomains(ss) == ss[Observed].domains

\* for (const result of results): the values of the fulfilled results are added
\* to domains.
FulfilledDomains(ss) ==
    UNION { ss[e].domains : e \in { b \in BROWSERS : ss[b].phase = "fulfilled" } }

\* Promise.allSettled settles: the fulfilled sessions' domains are united and
\* handed to processDomainsResults; a rejection would land in the catch.
Aggregate ==
    /\ dpc = "waiting"
    /\ \A e \in BROWSERS : SessionSettled(sess[e])
    /\ IF PromiseAllSettled(sess) = "rejected"
       THEN /\ dpc' = "exit1"
            /\ UNCHANGED processed
       ELSE /\ dpc' = "done"
            /\ processed' = FulfilledDomains(sess)
    /\ UNCHANGED << provider, sess >>
    /\ UNCHANGED fetchVars
    /\ UNCHANGED observerVars
    /\ UNCHANGED callVars
    /\ UNCHANGED historyVars
    /\ UNCHANGED tldVars

SessionNext(e) ==
    \/ LaunchSettle(e)
    \/ NavigateSettle(e)
    \/ SmailproInit(e)
    \/ SmailproIteration(e)
    \/ DisposableIteration(e)
    \/ MailtempExtract(e)
    \/ BackoffElapsed(e)
    \/ CloseSettle(e)

ScraperNext ==
    \/ ScrapeStart
    \/ \E e \in BROWSERS : SessionNext(e)
    \/ Aggregate

\* main is started; no scraper runs in its process.
Init ==
    /\ allowlistSet = {}
    /\ disposables = {}
    /\ limit \in Limits
    /\ taskState = [i \in Tasks |-> "pending"]
    /\ taskDomains = [i \in Tasks |-> << >>]
    /\ fetchOutcome = [i \in Tasks |-> "none"]
    /\ results = << >>
    /\ executing = << >>
    /\ nextTask = 1
    /\ tpc = "idle"
    /\ awaited = << >>
    /\ awaitResult = "pending"
    /\ mpc = "init"
    /\ publishedDisposable = NotPublished
    /\ publishedAllow = NotPublished
    /\ iterations = 0
    /\ failure = "none"
    /\ clean = TRUE
    /\ fn = "none"
    /\ arg = << >>
    /\ out = << >>
    /\ returned = FALSE
    /\ localAllow = {}
    /\ invoked = << >>
    /\ load = [i \in Tasks |-> NotInvoked]
    /\ fulfilledOrder = << >>
    /\ closeFailed = FALSE
    /\ upc = "idle"
    /\ tldResponse = NoResponse
    /\ tsFile = Unwritten
    /\ txtFile = Unwritten
    /\ writes = [f \in OutputFiles |-> "none"]
    /\ provider = "none"
    /\ sess = [e \in BROWSERS |-> IdleSession]
    /\ dpc = "idle"
    /\ processed = NotProcessed

Spec == Init /\ [][Next]_vars

\* The event loop runs every runnable continuation, and every fetch settles.
FairSpec == Spec /\ WF_vars(Next)

ScraperSpec == ScraperInit /\ [][ScraperNext]_vars

\* Every await of a session settles, and the event loop then runs the session.
ScraperFairSpec ==
    /\ ScraperSpec
    /\ WF_vars(ScrapeStart)
    /\ WF_vars(Aggregate)
    /\ \A e \in BROWSERS : WF_vars(SessionNext(e))

(***************************************************************************)
(* Properties of the aggregation driver.                                   *)
(***************************************************************************)
Published == publishedDisposable # NotPublished

AllowTasks == { i \in Tasks : Sources[i].list = "allow" }
DenyTasks == { i \in Tasks : Sources[i].list = "deny" }

\* The valid candidates the deny sources of this run yielded.
ValidDenyCandidates ==
    { d \in UNION { Range(taskDomains[i]) : i \in DenyTasks } : validateDomain(d) }

Unsettled == { i \in Tasks : taskState[i] \in {"running", "fulfilled"} }

FetchFailures == {"transport", "http", "parse"}

\* C1 -- Allow-Set veto: the Disposable Set handed to the publisher holds no
\* domain of the Allow Set, whatever the order in which the tasks settled.
C1_AllowSetVeto ==
    Published => publishedDisposable \cap publishedAllow = {}

\* C2 -- Order independence: the published Disposable Set is the valid deny
\* candidates minus the final Allow Set, whatever the settle order; with the
\* allow source yielding example.com and a deny source example.com and evil.tk
\* it holds no example.com.
C2_OrderIndependent ==
    Published => publishedDisposable = ValidDenyCandidates \ publishedAllow

\* C3 -- Limiter bound: at most `limit` started tasks are unsettled, in every
\* reachable state and for every limit.
C3_LimiterBound ==
    /\ Cardinality(Unsettled) <= limit
    /\ Len(executing) <= limit \/ \E i \in Tasks : taskState[i] = "rejected"

\* A state with the limit reached while tasks are still to be started.
C3_Witness ==
    /\ limit = 2
    /\ Cardinality({ i \in Tasks : taskState[i] = "running" }) = 2
    /\ nextTask <= NTasks
    /\ tpc = "race"

\* C4 -- No deadlock: throttlePromises never waits with nothing in flight, and
\* unless a task rejects it eventually resolves, for every limit and order.
C4_NoDeadlock ==
    /\ [](tpc \in {"race", "all"} /\ awaitResult = "pending" => Unsettled # {})
    /\ <>(tpc = "resolved" \/ \E i \in Tasks : taskState[i] = "rejected")

\* throttlePromises resolved in the fully serial case, after a wait at the race.
C4_Witness ==
    /\ limit = 1
    /\ tpc = "resolved"
    /\ Len(results) = NTasks

\* C5 -- throttlePromises resolves only after every task has settled, with
\* one result per task: the multiset of the tasks' results.
C5_AllResults ==
    tpc = "resolved" =>
        /\ \A i \in Tasks : taskState[i] = "recorded"
        /\ Len(results) = NTasks
        /\ SeqToBag(results) = SeqToBag([i \in Tasks |-> Len(taskDomains[i])])

\* Resolved with results of different sizes, after waiting at the limit.
C5_Witness ==
    /\ tpc = "resolved"
    /\ limit = 2
    /\ Cardinality(Range(results)) >= 3

\* Task j's candidates have been reconciled into the two sets.
Reconciled(j) ==
    \A d \in Range(taskDomains[j]) :
        validateDomain(d) =>
            IF j \in AllowTasks THEN d \in allowlistSet
            ELSE d \in disposables \cup allowlistSet

\* C6 -- Source failure isolation: a transport error, a non-OK status or a
\* parse error gives the empty list and a fulfilled task; publication finds
\* every task started, settled and reconciled; and unless a task's closure
\* throws for another reason, the batch reaches publication.
C6_FailureIsolation ==
    /\ [](\A i \in Tasks :
            fetchOutcome[i] \in FetchFailures =>
                taskState[i] \in {"fulfilled", "recorded"} /\ taskDomains[i] = << >>)
    /\ [](Published => \A j \in Tasks : taskState[j] = "recorded" /\ Reconciled(j))
    /\ <>(Published \/ \E i \in Tasks : taskState[i] = "rejected" /\ fetchOutcome[i] = "none")

\* Published after one source failed each way while a fourth was reconciled.
C6_Witness ==
    /\ Published
    /\ fetchOutcome[1] = "transport"
    /\ fetchOutcome[2] = "http"
    /\ fetchOutcome[3] = "parse"
    /\ fetchOutcome[4] = "ok"
    /\ "evil.tk" \in publishedDisposable

(***************************************************************************)
(* One call of extractDomainsFromPage under observation: the session of    *)
(* one engine runs while the other engine's launch is still pending, and   *)
(* the page may read any address of a larger pool.                         *)
(***************************************************************************)
PageTexts == EmailTexts \cup {"u@a.test", "u@c.test", "u@d.test", "u@e.test"}

\* MAX_EMAIL_CHANGES of the provider's file.
MaxEmailChanges(p) ==
    IF p = "smailpro" THEN MAX_EMAIL_CHANGES_SMAILPRO ELSE MAX_EMAIL_CHANGES_DISPOSABLE

\* The observer stops counting one past the largest MAX_EMAIL_CHANGES.
IterationCap == MAX_EMAIL_CHANGES_SMAILPRO + 1

Count(n) == IF n < IterationCap THEN n + 1 ELSE n

\* The address display reads an address whose domain is valid.
ReadsValid(emailText) ==
    emailText # NoEmail /\ processEmailDomain(emailText) # NoDomain

\* One iteration of the smailpro loop: getCurrentEmail swallows its errors and
\* returns null; generateNewEmail throws.
ObservedSmailproIteration ==
    /\ dpc = "waiting"
    /\ provider = "smailpro"
    /\ sess[Observed].phase = "extract"
    /\ \E emailText \in PageTexts \cup {NoEmail}, generated \in BOOLEAN :
          /\ Step(Observed, SmailproOnIteration(sess[Observed], emailText, generated))
          /\ failure' = IF emailText = NoEmail THEN "swallowed"
                        ELSE IF ~generated THEN "thrown" ELSE "ok"
          /\ clean' = (clean /\ ReadsValid(emailText) /\ generated)
    /\ iterations' = Count(iterations)
    /\ UNCHANGED << provider, dpc, processed >>
    /\ UNCHANGED fetchVars
    /\ UNCHANGED callVars
    /\ UNCHANGED historyVars
    /\ UNCHANGED tldVars

\* One iteration of the disposablemail loop: waitForSelector throws,
\* waitForEmailText returns null, an unchanged address breaks, changeEmail or
\* the delay after it throws.
ObservedDisposableIteration ==
    /\ dpc = "waiting"
    /\ provider = "disposablemail"
    /\ sess[Observed].phase = "extract"
    /\ \E selected \in BOOLEAN, emailText \in PageTexts \cup {NoEmail},
          changed \in BOOLEAN :
          LET how == IF ~selected THEN "thrown"
                     ELSE IF emailText = NoEmail THEN "swallowed"
                     ELSE IF emailText = sess[Observed].lastEmailText THEN "unchanged"
                     ELSE IF ~changed THEN "thrown" ELSE "ok"
          IN  /\ Step(Observed,
                      DisposableOnIteration(sess[Observed], selected, emailText, changed))
              /\ failure' = how
              /\ clean' = (clean /\ how = "ok" /\ ReadsValid(emailText))
    /\ iterations' = Count(iterations)
    /\ UNCHANGED << provider, dpc, processed >>
    /\ UNCHANGED fetchVars
    /\ UNCHANGED callVars
    /\ UNCHANGED historyVars
    /\ UNCHANGED tldVars

\* The mailtemp extraction: the set-up throws, or every option is read; an
\* option whose innerText throws is logged and skipped.
ObservedMailtempExtract ==
    /\ dpc = "waiting"
    /\ provider = "mailtemp"
    /\ sess[Observed].phase = "extract"
    /\ \E opened \in BOOLEAN, options \in SUBSET OptionTexts :
          \E unreadable \in SUBSET options :
              LET how == IF ~opened THEN "thrown"
                         ELSE IF unreadable # {} THEN "swallowed" ELSE "ok"
              IN  /\ Step(Observed,
                          MailtempOnExtract(sess[Observed], opened, options \ unreadable))
                  /\ failure' = how
                  /\ clean' = (clean /\ how = "ok")
                  /\ iterations' = IF opened THEN Cardinality(options) ELSE 0
    /\ UNCHANGED << provider, dpc, processed >>
    /\ UNCHANGED fetchVars
    /\ UNCHANGED callVars
    /\ UNCHANGED historyVars
    /\ UNCHANGED tldVars

ExtractNext ==
    \/ ScrapeStart
    \/ LaunchSettle(Observed)
    \/ NavigateSettle(Observed)
    \/ SmailproInit(Observed)
    \/ ObservedSmailproIteration
    \/ ObservedDisposableIteration
    \/ ObservedMailtempExtract
    \/ BackoffElapsed(Observed)
    \/ CloseSettle(Observed)

ExtractSpec == ScraperInit /\ [][ExtractNext]_vars

\* Every await of the observed session settles.
ExtractFairSpec == ExtractSpec /\ WF_vars(ExtractNext)

(***************************************************************************)
(* The observed session with the outcome of browser.close() recorded.  A   *)
(* throw of the finally block would leave the for loop of smailpro, and    *)
(* would land in the outer catch of disposablemail and mailtemp.           *)
(***************************************************************************)
ObservedCloseSettle ==
    /\ dpc = "waiting"
    /\ sess[Observed].phase = "closing"
    /\ \E closed \in BOOLEAN :
          /\ closeFailed' = ~closed
          /\ IF CloseOutcome(closed) = "settled"
             THEN Step(Observed,
                       CASE provider = "smailpro" -> SmailproOnClose(sess[Observed])
                         [] provider = "disposablemail" -> DisposableOnClose(sess[Observed])
                         [] provider = "mailtemp" -> MailtempOnClose(sess[Observed]))
             ELSE Step(Observed,
                       CASE provider = "smailpro" ->
                                Reject(Failed(Closed(sess[Observed]), "close"), "close")
                         [] provider = "disposablemail" ->
                                DisposableCatch(Closed(sess[Observed]), "close")
                         [] provider = "mailtemp" ->
                                MailtempCatch(Closed(sess[Observed]), "close"))
    /\ UNCHANGED << provider, dpc, processed >>
    /\ UNCHANGED fetchVars
    /\ UNCHANGED observerVars
    /\ UNCHANGED callVars
    /\ UNCHANGED << localAllow, invoked, load, fulfilledOrder >>
    /\ UNCHANGED tldVars

CloseNext ==
    \/ ScrapeStart
    \/ LaunchSettle(Observed)
    \/ NavigateSettle(Observed)
    \/ SmailproInit(Observed)
    \/ SmailproIteration(Observed)
    \/ DisposableIteration(Observed)
    \/ MailtempExtract(Observed)
    \/ BackoffElapsed(Observed)
    \/ ObservedCloseSettle

CloseSpec == ScraperInit /\ [][CloseNext]_vars

(***************************************************************************)
(* Properties of the scrapers.                                             *)
(***************************************************************************)
\* The phases in which an attempt of a session is under way.
AttemptPhases == {"launch", "navigate", "init", "extract"}

\* C7 -- Retry ceiling: a session starts at most MAX_RETRIES attempts, each
\* from launch and only after the one before it failed; it is rejected only
\* after exactly MAX_RETRIES failed attempts, and no attempt follows a
\* successful one.
C7_RetryCeiling ==
    \A e \in BROWSERS :
        LET s == sess[e] IN
        /\ s.launches <= MAX_RETRIES
        /\ s.failures <= s.launches /\ s.launches <= s.failures + 1
        /\ s.phase = "rejected" => s.launches = MAX_RETRIES /\ s.failures = MAX_RETRIES
        /\ s.phase = "fulfilled" => s.launches = s.failures + 1

\* One engine gave up after three failed attempts, of both kinds, while the
\* other succeeded at its second attempt.
C7_Witness ==
    \E e, f \in BROWSERS :
        /\ sess[e].phase = "rejected"
        /\ sess[e].launches = MAX_RETRIES
        /\ sess[e].lastFailure = "navigation"
        /\ sess[e].lastError = "navigation"
        /\ sess[f].phase = "fulfilled"
        /\ sess[f].launches = 2

\* C8 -- Backoff: whatever made attempt k fail, attempt k+1 starts only after
\* a delay of 2000 ms x k.
C8_Backoff ==
    \A e \in BROWSERS :
        LET s == sess[e] IN
        (s.phase \in AttemptPhases /\ s.launches >= 2) =>
            s.gap = RETRY_DELAY_MS * (s.launches - 1)

\* C9 -- Session failure isolation: a session that exhausted its retries
\* rejects with the error of its last attempt; the top-level function still
\* hands the domains of the fulfilled sessions to processDomainsResults and
\* never reaches process.exit(1).
C9_SessionIsolation ==
    /\ \A e \in BROWSERS :
          sess[e].phase = "rejected" =>
              /\ sess[e].failures = MAX_RETRIES
              /\ sess[e].error = sess[e].lastFailure
    /\ dpc # "exit1"
    /\ dpc = "done" =>
          /\ processed # NotProcessed
          /\ \A e \in BROWSERS :
                sess[e].phase = "fulfilled" => sess[e].domains \subseteq processed
          /\ processed \subseteq
                UNION { sess[e].domains : e \in { b \in BROWSERS : sess[b].phase = "fulfilled" } }

\* The run completed with one engine rejected and the other's domain handed on.
C9_Witness ==
    /\ dpc = "done"
    /\ \E e, f \in BROWSERS :
          /\ sess[e].phase = "rejected"
          /\ sess[e].error = "launch"
          /\ sess[f].phase = "fulfilled"
          /\ sess[f].domains = {"b.test"}
    /\ processed = {"b.test"}

\* C10 -- Browser release: a settled session has closed every browser it
\* launched, and every launched browser is eventually closed.
C10_BrowserRelease ==
    /\ [](\A e \in BROWSERS : SessionSettled(sess[e]) => sess[e].open = 0)
    /\ \A e \in BROWSERS : (sess[e].open > 0) ~> (sess[e].open = 0)

(***************************************************************************)
(* Properties of extractDomainsFromPage.                                   *)
(***************************************************************************)
\* The observed session stands inside the extraction loop of smailpro or
\* disposablemail.
InExtractLoop ==
    provider \in {"smailpro", "disposablemail"} /\ sess[Observed].phase = "extract"

\* C11 -- ExtractLoop is bounded: in smailpro and disposablemail the loop body
\* is entered at most MAX_EMAIL_CHANGES times and the loop always ends,
\* whatever the page does.
C11_ExtractLoopBounded ==
    /\ [](provider \in {"smailpro", "disposablemail"} =>
              iterations <= MaxEmailChanges(provider))
    /\ InExtractLoop ~> ~InExtractLoop

\* extractDomainsFromPage of the observed session has returned.
ExtractionReturned ==
    \/ sess[Observed].phase = "fulfilled"
    \/ sess[Observed].phase = "closing" /\ sess[Observed].pending = "return"

\* C12 -- ExtractLoop counts distinct discoveries: when the page kept issuing
\* new valid addresses and no sub-step failed, the loop of smailpro and
\* disposablemail ends with exactly MAX_EMAIL_CHANGES distinct domains recorded.
C12_DistinctDiscoveries ==
    (/\ provider \in {"smailpro", "disposablemail"}
     /\ ExtractionReturned
     /\ iterations > 0
     /\ clean)
    => Cardinality(sess[Observed].found) = MaxEmailChanges(provider)

\* No step takes a domain out of what the observed call has recorded or out of
\* what the session returns.
KeepsRecorded ==
    /\ sess[Observed].found \subseteq sess'[Observed].found
    /\ sess[Observed].domains \subseteq sess'[Observed].domains

\* C13 -- Partial-iteration failure keeps results, as claimed: whenever a
\* sub-step of an iteration fails the loop exits, the call returns every domain
\* recorded so far, and no recorded domain is ever removed.
C13_FailureExitsLoop ==
    /\ [](failure \in {"swallowed", "thrown"} => sess[Observed].phase # "extract")
    /\ [](ExtractionReturned => sess[Observed].found \subseteq sess[Observed].domains)
    /\ [][KeepsRecorded]_vars

\* C13 -- Partial-iteration failure keeps results, amended: a sub-step failure
\* that throws inside an iteration exits the loop, one that the helper swallows
\* only skips to the next iteration; either way the call returns every domain
\* recorded so far, and no recorded domain is ever removed.
C13_FailureKeepsResults ==
    /\ [](failure = "thrown" => sess[Observed].phase # "extract")
    /\ [](ExtractionReturned => sess[Observed].found \subseteq sess[Observed].domains)
    /\ [][KeepsRecorded]_vars

\* The loop was left by a throw in a later iteration and the domain recorded
\* before it was returned.
C13_Witness ==
    /\ provider \in {"smailpro", "disposablemail"}
    /\ failure = "thrown"
    /\ iterations >= 2
    /\ sess[Observed].phase = "fulfilled"
    /\ sess[Observed].found # {}
    /\ sess[Observed].domains = sess[Observed].found

(***************************************************************************)
(* Properties of processDomains.                                           *)
(***************************************************************************)
\* The step in which the closure of task i calls processDomains: its fetch has
\* settled and taskDomains'[i] are the candidates.
Reconciles(i) == taskState[i] = "running" /\ taskState'[i] = "fulfilled"

ValidOf(candidates) == { d \in Range(candidates) : validateDomain(d) }

\* C14 -- Deny reconciliation: processDomains(candidates, false) adds to the
\* Disposable Set exactly the valid candidates that are not in the Allow Set at
\* that moment, leaves the Allow Set alone, and puts an invalid candidate in
\* neither set.
C14_DenyReconciliation ==
    [][\A i \in DenyTasks :
          Reconciles(i) =>
              LET candidates == taskDomains'[i] IN
              /\ allowlistSet' = allowlistSet
              /\ disposables' \ disposables \subseteq ValidOf(candidates) \ allowlistSet
              /\ ValidOf(candidates) \ allowlistSet \subseteq disposables'
              /\ disposables \subseteq disposables'
              /\ \A d \in Range(candidates) \ ValidOf(candidates) :
                    /\ d \in disposables' => d \in disposables
                    /\ d \in allowlistSet' => d \in allowlistSet]_vars

\* A deny task brought an allowed, a free and an invalid candidate: only the
\* free one is in the Disposable Set.
C14_Witness ==
    /\ taskState[3] \in {"fulfilled", "recorded"}
    /\ Range(taskDomains[3]) = {"evil.tk", "not a domain"}
    /\ taskState[2] \in {"fulfilled", "recorded"}
    /\ "example.com" \in Range(taskDomains[2])
    /\ "example.com" \in allowlistSet
    /\ disposables = {"evil.tk"}

\* C15 -- Allow reconciliation: processDomains(candidates, true) adds every
\* valid candidate to the Allow Set whatever the Disposable Set holds, leaves
\* the Disposable Set alone, and applying it a second time changes nothing.
C15_AllowReconciliation ==
    [][\A i \in AllowTasks :
          Reconciles(i) =>
              LET candidates == taskDomains'[i] IN
              /\ allowlistSet' = allowlistSet \cup ValidOf(candidates)
              /\ disposables' = disposables
              /\ processDomains(candidates, TRUE, allowlistSet', disposables')
                    = [allow |-> allowlistSet', disp |-> disposables']]_vars

\* The allow task added a domain that the Disposable Set already held.
C15_Witness ==
    /\ taskState[1] \in {"fulfilled", "recorded"}
    /\ taskDomains[1] # << >>
    /\ \E d \in Range(taskDomains[1]) : d \in disposables /\ d \in allowlistSet
    /\ allowlistSet = ValidOf(taskDomains[1])

(***************************************************************************)
(* Properties of the published sets.                                       *)
(***************************************************************************)
\* A string that trimming and lower-casing leave as it is.
Normalised(d) == TrimLower(d) = d

\* C16 -- Every domain of the two published sets is normalised and has passed
\* validateDomain, whichever input it came from.
C16_PublishedValidated ==
    Published =>
        \A d \in publishedDisposable \cup publishedAllow :
            Normalised(d) /\ validateDomain(d)

\* The step is one processDomains call of task i, and of no other task.
WrittenBy(i) ==
    /\ Reconciles(i)
    /\ [allow |-> allowlistSet', disp |-> disposables'] =
          processDomains(taskDomains'[i], Sources[i].list = "allow",
                         allowlistSet, disposables)
    /\ \A j \in Tasks \ {i} : taskState'[j] = taskState[j]

\* C17 -- Single writer: every step that changes the Allow Set or the
\* Disposable Set is one whole processDomains call of one task, with no step
\* of another task between its membership checks and its insertions.
C17_SingleWriter ==
    [][(allowlistSet' # allowlistSet \/ disposables' # disposables) =>
          \E i \in Tasks : WrittenBy(i)]_vars

\* C18 -- Both sets are append-only during a run: no step takes an element out
\* of allowlistSet or out of disposables.
C18_AppendOnly ==
    [][allowlistSet \subseteq allowlistSet' /\ disposables \subseteq disposables']_vars

\* Both sets grew in several steps and were handed over as they stood.
C18_Witness ==
    /\ mpc = "writing"
    /\ allowlistSet = {"example.com"}
    /\ disposables = {"example.com", "evil.tk"}
    /\ publishedAllow = allowlistSet
    /\ publishedDisposable = disposables

(***************************************************************************)
(* The normalisers, character by character.  A string is the sequence of   *)
(* its characters, over an alphabet with an upper-case letter, a lower-    *)
(* case letter, a blank, a double quote and a backslash.                   *)
(***************************************************************************)
Chars == {"A", "n", " ", "\"", "\\"}

\* The longest string handed to a normaliser.
MaxStrLen == 4

Strings == UNION { [1..k -> Chars] : k \in 0..MaxStrLen }

WhiteSpace == {" "}

RECURSIVE TrimStart(_)
TrimStart(s) ==
    IF s # << >> /\ Head(s) \in WhiteSpace THEN TrimStart(Tail(s)) ELSE s

RECURSIVE TrimEnd(_)
TrimEnd(s) ==
    IF s # << >> /\ s[Len(s)] \in WhiteSpace
    THEN TrimEnd(SubSeq(s, 1, Len(s) - 1)) ELSE s

\* String.prototype.trim()
Trim(s) == TrimEnd(TrimStart(s))

\* String.prototype.toLowerCase()
ToLowerCase(s) == [i \in DOMAIN s |-> IF s[i] = "A" THEN "a" ELSE s[i]]

\* replaceAll(/"/g, '')
ReplaceAllQuotes(s) == SelectSeq(s, LAMBDA c : c # "\"")

\* replace(/\s+/g, '')
ReplaceWhiteSpace(s) == SelectSeq(s, LAMBDA c : c \notin WhiteSpace)

\* replace(/\\n/g, ''): one pass from the left over the occurrences of a
\* backslash followed by n.
RECURSIVE ReplaceBackslashN(_)
ReplaceBackslashN(s) ==
    IF Len(s) < 2 THEN s
    ELSE IF s[1] = "\\" /\ s[2] = "n" THEN ReplaceBackslashN(SubSeq(s, 3, Len(s)))
    ELSE << s[1] >> \o ReplaceBackslashN(Tail(s))

\* line.trim().toLowerCase()
PlainNormalize(s) == ToLowerCase(Trim(s))

\* parts[col]?.trim().toLowerCase().replaceAll(/"/g, '') || ''
CsvNormalize(s) == ReplaceAllQuotes(ToLowerCase(Trim(s)))

\* domain.trim().toLowerCase().replace(/\s+/g, '').replace(/\\n/g, '')
ScrapedNormalize(s) == ReplaceBackslashN(ReplaceWhiteSpace(ToLowerCase(Trim(s))))

Normalizers == {"plain", "csv", "scraped"}

Normalize(f, s) ==
    CASE f = "plain" -> PlainNormalize(s)
      [] f = "csv" -> CsvNormalize(s)
      [] f = "scraped" -> ScrapedNormalize(s)

(***************************************************************************)
(* isValidTld of src/src/fetch/tlds.ts, on strings of characters: a lower- *)
(* case and an upper-case letter, a digit, the hyphen and a character      *)
(* outside the class of the regular expression.                            *)
(***************************************************************************)
MAX_TLD_LENGTH == 63

TldChars == {"a", "A", "0", "-", "_"}

\* The longest of the short strings handed to isValidTld.
MaxShortTld == 3

\* A string of k characters: letters between a first and a last character.
LongTld(k, first, last) ==
    [i \in 1..k |-> IF i = 1 THEN first ELSE IF i = k THEN last ELSE "a"]

\* Every short string, and strings of about MAX_TLD_LENGTH characters.
TldStrings ==
    UNION { [1..k -> TldChars] : k \in 0..MaxShortTld }
    \cup { LongTld(k, first, last) :
             k \in (MAX_TLD_LENGTH - 1)..(MAX_TLD_LENGTH + 2),
             first \in TldChars, last \in TldChars }

\* String.prototype.toUpperCase()
ToUpperCase(s) == [i \in DOMAIN s |-> IF s[i] = "a" THEN "A" ELSE s[i]]

\* A character of the class [a-z0-9-] under the flag i.
InTldClass(c) == c \in {"a", "A", "0", "-"}

\* TLD_VALIDATION_REGEX.test(tld): /^[a-z0-9-]+$/i
TldRegexTest(tld) == tld # << >> /\ \A i \in DOMAIN tld : InTldClass(tld[i])

\* isValidTld without its look at the length.
isValidTldAnyLength(tld) ==
    /\ Len(tld) > 0
    /\ TldRegexTest(tld)
    /\ ~(tld # << >> /\ Head(tld) = "-")
    /\ ~(tld # << >> /\ tld[Len(tld)] = "-")

isValidTld(tld) ==
    /\ Len(tld) > 0
    /\ Len(tld) <= MAX_TLD_LENGTH
    /\ TldRegexTest(tld)
    /\ ~(tld # << >> /\ Head(tld) = "-")
    /\ ~(tld # << >> /\ tld[Len(tld)] = "-")

(***************************************************************************)
(* The same entries served in the three formats of fetchData.              *)
(***************************************************************************)
Entries == {"example.com", " Evil.TK ", "\"example.com\"", "# comment", "", "not a domain"}

\* The longest list of entries a source carries.
MaxEntries == 2

EntryLists == UNION { [1..k -> Entries] : k \in 0..MaxEntries }

\* A plain body with one entry per line.
AsPlain(data) ==
    Response("ok", TRUE, [i \in DOMAIN data |-> << data[i] >>], FALSE, JString)

\* A JSON body whose root is the list of the entries.
AsStructured(data) == Response("ok", TRUE, << >>, TRUE, JList(data))

\* A JSON body that parses to the value json.
AsJson(json) == Response("ok", TRUE, << >>, TRUE, json)

\* A delimited body with the entry in column 0 and a second column.
AsDelimited(data) ==
    Response("ok", TRUE, [i \in DOMAIN data |-> << data[i], "x" >>], FALSE, JString)

\* The candidates that fetchData and validateDomain leave of each format.
Candidates(data) ==
    << { d \in Range(fetchData(AsPlain(data), NoKey, NoCol).value) : validateDomain(d) },
       { d \in Range(fetchData(AsStructured(data), ".", NoCol).value) : validateDomain(d) },
       { d \in Range(fetchData(AsDelimited(data), NoKey, 0).value) : validateDomain(d) } >>

(***************************************************************************)
(* What response.json() of a structured source can give, and the keys a    *)
(* source descriptor can name.                                             *)
(***************************************************************************)
JsonValues ==
    { JString, JNull, JList(<< >>), JList(<<"evil.tk", " Evil.TK ">>),
      JObject(JString), JObject(JList(<<"example.com">>)),
      JObject(JObject(JList(<<"example.com">>))) }

Keys == {".", "domains", "other"}

(***************************************************************************)
(* One call of a normaliser, or of fetchData on the three formats.         *)
(***************************************************************************)
CallInit ==
    /\ fn \in Normalizers \cup {"formats", "isValidTld", "structured"}
    /\ arg \in CASE fn = "formats" -> EntryLists
                [] fn = "isValidTld" -> TldStrings
                [] fn = "structured" -> JsonValues \X Keys
                [] OTHER -> Strings
    /\ out = << >>
    /\ returned = FALSE
    /\ localAllow = {}
    /\ invoked = << >>
    /\ load = [i \in Tasks |-> NotInvoked]
    /\ fulfilledOrder = << >>
    /\ closeFailed = FALSE
    /\ upc = "idle"
    /\ tldResponse = NoResponse
    /\ tsFile = Unwritten
    /\ txtFile = Unwritten
    /\ writes = [f \in OutputFiles |-> "none"]
    /\ allowlistSet = {}
    /\ disposables = {}
    /\ limit = MAX_CONCURRENT_REQUESTS
    /\ taskState = [i \in Tasks |-> "pending"]
    /\ taskDomains = [i \in Tasks |-> << >>]
    /\ fetchOutcome = [i \in Tasks |-> "none"]
    /\ results = << >>
    /\ executing = << >>
    /\ nextTask = 1
    /\ tpc = "idle"
    /\ awaited = << >>
    /\ awaitResult = "pending"
    /\ mpc = "init"
    /\ publishedDisposable = NotPublished
    /\ publishedAllow = NotPublished
    /\ provider = "none"
    /\ sess = [e \in BROWSERS |-> IdleSession]
    /\ dpc = "idle"
    /\ processed = NotProcessed
    /\ iterations = 0
    /\ failure = "none"
    /\ clean = TRUE

\* The normaliser is applied to the string, and once more to what it gave.
ApplyNormalize ==
    /\ fn \in Normalizers
    /\ ~returned
    /\ out' = << Normalize(fn, arg), Normalize(fn, Normalize(fn, arg)) >>
    /\ returned' = TRUE
    /\ UNCHANGED << fn, arg >>
    /\ UNCHANGED << fetchVars, scraperVars, observerVars, historyVars, tldVars >>

\* fetchData is applied to the entries in each of the three formats.
ApplyFormats ==
    /\ fn = "formats"
    /\ ~returned
    /\ out' = Candidates(arg)
    /\ returned' = TRUE
    /\ UNCHANGED << fn, arg >>
    /\ UNCHANGED << fetchVars, scraperVars, observerVars, historyVars, tldVars >>

\* isValidTld is applied to the string as it is, lower-cased and upper-cased.
ApplyIsValidTld ==
    /\ fn = "isValidTld"
    /\ ~returned
    /\ out' = << isValidTld(arg), isValidTld(ToLowerCase(arg)), isValidTld(ToUpperCase(arg)) >>
    /\ returned' = TRUE
    /\ UNCHANGED << fn, arg >>
    /\ UNCHANGED << fetchVars, scraperVars, observerVars, historyVars, tldVars >>

\* fetchData is applied to a structured source whose body parses to arg[1],
\* with the key arg[2].
ApplyStructured ==
    /\ fn = "structured"
    /\ ~returned
    /\ out' = fetchData(AsJson(arg[1]), arg[2], NoCol).value
    /\ returned' = TRUE
    /\ UNCHANGED << fn, arg >>
    /\ UNCHANGED << fetchVars, scraperVars, observerVars, historyVars, tldVars >>

CallNext == ApplyNormalize \/ ApplyFormats \/ ApplyIsValidTld \/ ApplyStructured

CallSpec == CallInit /\ [][CallNext]_vars

(***************************************************************************)
(* Properties of the formats and of the normalisers.                       *)
(***************************************************************************)
\* C19 -- Format parity: the same entries served as a plain source, as a
\* structured source with key '.' and as a delimited source with column 0
\* give the same candidates after fetchData and validation.
C19_FormatParity ==
    (fn = "formats" /\ returned) => (out[1] = out[2] /\ out[2] = out[3])

\* C20 -- Normalisation is idempotent: for each normaliser of the code,
\* normalising a normalised string gives it back.
C20_NormalizeIdempotent ==
    (fn \in Normalizers /\ returned) => out[2] = out[1]

(***************************************************************************)
(* Properties of isValidTld.                                               *)
(***************************************************************************)
\* C21 -- TLD validity: isValidTld rejects the empty string, a TLD of more
\* than 63 characters, a TLD with a character outside letters, digits and
\* hyphen, and a TLD with a leading or trailing hyphen; it accepts a TLD of 63
\* valid characters; and its verdict does not depend on the case of the letters.
C21_TldValidity ==
    (fn = "isValidTld" /\ returned) =>
        /\ arg = << >> => ~out[1]
        /\ Len(arg) >= 64 => ~out[1]
        /\ (\E i \in DOMAIN arg : arg[i] \notin {"a", "A", "0", "-"}) => ~out[1]
        /\ (arg # << >> /\ (arg[1] = "-" \/ arg[Len(arg)] = "-")) => ~out[1]
        /\ (/\ Len(arg) = 63
            /\ \A i \in DOMAIN arg : arg[i] \in {"a", "A", "0"}) => out[1]
        /\ out[2] = out[1]
        /\ out[3] = out[1]

\* A TLD of 64 letters was rejected.
C21_Witness ==
    /\ fn = "isValidTld"
    /\ returned
    /\ Len(arg) = 64
    /\ \A i \in DOMAIN arg : arg[i] \in {"a", "A"}
    /\ out = << FALSE, FALSE, FALSE >>

(***************************************************************************)
(* Properties of the structured branch of fetchData.                       *)
(***************************************************************************)
\* The value the key of a structured source names: the root for '.', the
\* member of that name otherwise, which only an object that has it can give.
Resolved(json, key) ==
    IF key = "." THEN json
    ELSE IF json.t = "object" /\ key = "domains" THEN json.f
    ELSE JString

\* C22 -- Structured sources: fetchData with a key resolves the root for the
\* key '.' and json[key] otherwise; it returns the entries of the resolved
\* value when that is a list and the empty list whenever it is not.
C22_StructuredSources ==
    (fn = "structured" /\ returned) =>
        LET data == Resolved(arg[1], arg[2]) IN
        /\ data.t = "list" => out = data.v
        /\ data.t # "list" => out = << >>

\* The root was a list and the key '.' gave its entries as they are.
C22_Witness ==
    /\ fn = "structured"
    /\ returned
    /\ arg[2] = "."
    /\ arg[1].t = "list"
    /\ out = <<"evil.tk", " Evil.TK ">>

(***************************************************************************)
(* Properties of main.                                                     *)
(***************************************************************************)
\* No source of the run has produced a valid candidate.
NoValidCandidates == \A i \in Tasks : ValidOf(taskDomains[i]) = {}

\* C23 -- Process exit contract: main completes normally, with exit status 0,
\* only when no top-level error occurred, zero valid candidates from all the
\* sources being one; and it exits with status 1 only after fetchDomains or
\* the publisher failed or no valid candidate was produced.
C23_ExitContract ==
    /\ mpc = "done" => (tpc = "resolved" /\ Published /\ ~NoValidCandidates)
    /\ mpc = "exit1" => (tpc = "rejected" \/ Published \/ NoValidCandidates)

(***************************************************************************)
(* throttlePromises on its own, one iteration of its for loop at a time,   *)
(* with tasks that may reject.  Task i returns the value i.  The then-     *)
(* callbacks are reaction jobs, which the job queue runs in the order in   *)
(* which the promises were fulfilled.                                      *)
(***************************************************************************)
TaskResult(i) == i

\* results.unshift(result)
PushFront(rs, result) == << result >> \o rs

\* results.push(result)
Push(rs, result) == Append(rs, result)

\* The reaction jobs that are queued: the fulfilled tasks whose callback has not
\* run, oldest first.
Jobs == SelectSeq(fulfilledOrder, LAMBDA i : taskState[i] = "fulfilled")

LimiterInit ==
    /\ limit \in Limits
    /\ taskState = [i \in Tasks |-> "pending"]
    /\ results = << >>
    /\ executing = << >>
    /\ nextTask = 1
    /\ tpc = "loop"
    /\ awaited = << >>
    /\ awaitResult = "pending"
    /\ invoked = << >>
    /\ load = [i \in Tasks |-> NotInvoked]
    /\ fulfilledOrder = << >>
    /\ closeFailed = FALSE
    /\ upc = "idle"
    /\ tldResponse = NoResponse
    /\ tsFile = Unwritten
    /\ txtFile = Unwritten
    /\ writes = [f \in OutputFiles |-> "none"]
    /\ localAllow = {}
    /\ allowlistSet = {}
    /\ disposables = {}
    /\ taskDomains = [i \in Tasks |-> << >>]
    /\ fetchOutcome = [i \in Tasks |-> "none"]
    /\ mpc = "init"
    /\ publishedDisposable = NotPublished
    /\ publishedAllow = NotPublished
    /\ provider = "none"
    /\ sess = [e \in BROWSERS |-> IdleSession]
    /\ dpc = "idle"
    /\ processed = NotProcessed
    /\ iterations = 0
    /\ failure = "none"
    /\ clean = TRUE
    /\ fn = "none"
    /\ arg = << >>
    /\ out = << >>
    /\ returned = FALSE

LimiterRest ==
    /\ UNCHANGED << allowlistSet, disposables, limit, taskDomains, fetchOutcome, mpc,
                    publishedDisposable, publishedAllow, localAllow, closeFailed >>
    /\ UNCHANGED << scraperVars, observerVars, callVars, tldVars >>

\* One iteration of the for loop: task() is called, its then-callback is
\* registered, p is pushed, and at the limit the loop awaits Promise.race.
Invoke ==
    /\ tpc = "loop"
    /\ nextTask <= NTasks
    /\ LET pushed == Append(executing, nextTask)
           st == [taskState EXCEPT ![nextTask] = "running"]
       IN  /\ taskState' = st
           /\ executing' = pushed
           /\ invoked' = Append(invoked, nextTask)
           /\ load' = [load EXCEPT ![nextTask] = Cardinality(Unsettled)]
           /\ nextTask' = nextTask + 1
           /\ IF AtLimit(Len(pushed), limit)
              THEN /\ tpc' = "race"
                   /\ awaited' = pushed
                   /\ awaitResult' = Race(pushed, st)
              ELSE /\ tpc' = "loop"
                   /\ UNCHANGED << awaited, awaitResult >>
    /\ UNCHANGED << results, fulfilledOrder >>
    /\ LimiterRest

\* The for loop is over: return Promise.all(executing).then(() => results).
LoopEnd ==
    /\ tpc = "loop"
    /\ nextTask > NTasks
    /\ tpc' = "all"
    /\ awaited' = executing
    /\ awaitResult' = All(executing, taskState)
    /\ UNCHANGED << taskState, results, executing, nextTask, invoked, load,
                    fulfilledOrder >>
    /\ LimiterRest

\* The promise of task i is fulfilled and its reaction job is queued.
TaskFulfil(i) ==
    /\ tpc # "loop"
    /\ taskState[i] = "running"
    /\ taskState' = [taskState EXCEPT ![i] = "fulfilled"]
    /\ fulfilledOrder' = Append(fulfilledOrder, i)
    /\ UNCHANGED << results, executing, nextTask, tpc, awaited, awaitResult,
                    invoked, load >>
    /\ LimiterRest

\* The promise of task i is rejected, and p with it.
TaskReject(i) ==
    /\ tpc # "loop"
    /\ taskState[i] = "running"
    /\ taskState' = [taskState EXCEPT ![i] = "rejected"]
    /\ awaitResult' = Settle(tpc, awaited, taskState', awaitResult)
    /\ UNCHANGED << results, executing, nextTask, tpc, awaited, invoked, load,
                    fulfilledOrder >>
    /\ LimiterRest

\* The oldest reaction job runs: results.push(result) and the splice.
RunCallback ==
    /\ tpc # "loop"
    /\ Jobs # << >>
    /\ LET i == Head(Jobs) IN
       /\ results' = Push(results, TaskResult(i))
       /\ executing' = Splice(executing, i)
       /\ taskState' = [taskState EXCEPT ![i] = "recorded"]
       /\ awaitResult' = Settle(tpc, awaited, taskState', awaitResult)
    /\ UNCHANGED << nextTask, tpc, awaited, invoked, load, fulfilledOrder >>
    /\ LimiterRest

\* await Promise.race(executing) resumes with the next iteration.
LimiterResume ==
    /\ tpc = "race"
    /\ awaitResult = "fulfilled"
    /\ tpc' = "loop"
    /\ UNCHANGED << taskState, results, executing, nextTask, awaited, awaitResult,
                    invoked, load, fulfilledOrder >>
    /\ LimiterRest

\* Promise.all(executing).then(() => results) is fulfilled.
LimiterResolve ==
    /\ tpc = "all"
    /\ awaitResult = "fulfilled"
    /\ tpc' = "resolved"
    /\ UNCHANGED << taskState, results, executing, nextTask, awaited, awaitResult,
                    invoked, load, fulfilledOrder >>
    /\ LimiterRest

\* The awaited race or all is rejected: throttlePromises rejects.
LimiterReject ==
    /\ tpc \in {"race", "all"}
    /\ awaitResult = "rejected"
    /\ tpc' = "rejected"
    /\ UNCHANGED << taskState, results, executing, nextTask, awaited, awaitResult,
                    invoked, load, fulfilledOrder >>
    /\ LimiterRest

LimiterNext ==
    \/ Invoke
    \/ LoopEnd
    \/ \E i \in Tasks : TaskFulfil(i)
    \/ \E i \in Tasks : TaskReject(i)
    \/ RunCallback
    \/ LimiterResume
    \/ LimiterResolve
    \/ LimiterReject

LimiterSpec == LimiterInit /\ [][LimiterNext]_vars

\* The event loop runs every runnable continuation, and every task settles.
LimiterFairSpec == LimiterSpec /\ WF_vars(LimiterNext)

(***************************************************************************)
(* Properties of throttlePromises on its own.                              *)
(***************************************************************************)
\* The results of the tasks in the order in which they were fulfilled.
InCompletionOrder == [k \in DOMAIN fulfilledOrder |-> TaskResult(fulfilledOrder[k])]

\* C24 -- Result ordering is completion order: in results, and so in the
\* array throttlePromises returns, the result of task i stands before that of
\* task j exactly when task i was fulfilled before task j, whatever the order
\* of submission.
C24_CompletionOrder ==
    /\ results = SubSeq(InCompletionOrder, 1, Len(results))
    /\ tpc = "resolved" => results = InCompletionOrder

\* Resolved with the last submitted task's result first.
C24_Witness ==
    /\ tpc = "resolved"
    /\ limit = MAX_CONCURRENT_REQUESTS
    /\ results = << TaskResult(4), TaskResult(2), TaskResult(1), TaskResult(3) >>

(***************************************************************************)
(* Properties of the publication.                                          *)
(***************************************************************************)
\* C25 -- Publication ordering: main hands the two sets to the publisher only
\* after every task given to throttlePromises has settled, it does so at most
\* once, and no step changes either set after the handover.
C25_PublicationOrdering ==
    /\ [](Published => \A i \in Tasks : Settled(taskState, i))
    /\ [][Published =>
            /\ publishedDisposable' = publishedDisposable
            /\ publishedAllow' = publishedAllow
            /\ allowlistSet' = allowlistSet
            /\ disposables' = disposables]_vars

\* A serial run ended after handing over what the tasks had gathered.
C25_Witness ==
    /\ mpc = "done"
    /\ limit = 1
    /\ \A i \in Tasks : taskState[i] = "recorded"
    /\ publishedDisposable = disposables
    /\ publishedAllow = allowlistSet
    /\ disposables # {}

(***************************************************************************)
(* Properties of the local allowlist.                                      *)
(***************************************************************************)
\* C26 -- Local allowlist precedence: every domain loaded from the local
\* allowlist file is in allowlistSet from the start of the first fetch task on,
\* and so none of them is ever a member of disposables, whatever the
\* interleaving of the tasks.
C26_LocalPrecedence ==
    /\ localAllow \subseteq allowlistSet
    /\ localAllow \cap disposables = {}
    /\ mpc = "init" => (localAllow = {} /\ \A i \in Tasks : taskState[i] = "pending")

\* A deny source brought the domain of the local file and it was kept out.
C26_Witness ==
    /\ localAllow = {"example.com"}
    /\ taskState[2] \in {"fulfilled", "recorded"}
    /\ "example.com" \in Range(taskDomains[2])
    /\ taskState[1] = "running"
    /\ disposables = {"evil.tk"}

(***************************************************************************)
(* Properties of the top-level function of a scraper.                      *)
(***************************************************************************)
\* C27 -- Scraper aggregation: processDomainsResults is called only once the
\* sessions of all engines have settled, exactly once, with the union of the
\* domains of the fulfilled sessions and of no other; it is called also when
\* every session was rejected, then with the empty set.
C27_ScraperAggregation ==
    /\ [](processed # NotProcessed =>
            /\ \A e \in BROWSERS : SessionSettled(sess[e])
            /\ \A e \in BROWSERS : sess[e].phase = "fulfilled" => sess[e].domains \subseteq processed
            /\ \A d \in processed :
                  \E e \in BROWSERS : sess[e].phase = "fulfilled" /\ d \in sess[e].domains)
    /\ [](dpc \in {"done", "exit1"} => processed # NotProcessed)
    /\ []((dpc = "done" /\ \A e \in BROWSERS : sess[e].phase = "rejected") => processed = {})
    /\ [][processed # NotProcessed => processed' = processed /\ sess' = sess]_vars

\* Every session was rejected and the call was made with the empty set.
C27_Witness ==
    /\ dpc = "done"
    /\ \A e \in BROWSERS : sess[e].phase = "rejected"
    /\ processed = {}

\* C28 -- Limiter rejection: once a task's promise has rejected,
\* throttlePromises never resolves and it eventually rejects; a task that was
\* not started when throttlePromises rejected is never started; and a task in
\* flight at that moment is not cancelled: it still settles.
C28_LimiterRejection ==
    /\ []((\E i \in Tasks : taskState[i] = "rejected") => tpc # "resolved")
    /\ (\E i \in Tasks : taskState[i] = "rejected") ~> (tpc = "rejected")
    /\ [][tpc = "rejected" =>
            \A i \in Tasks : taskState[i] = "pending" => taskState'[i] = "pending"]_vars
    /\ \A i \in Tasks :
          (tpc = "rejected" /\ taskState[i] = "running") ~> Settled(taskState, i)

\* The first task rejected at the race; the second, in flight, was recorded
\* after throttlePromises had rejected; the last two were never started.
C28_Witness ==
    /\ limit = 2
    /\ tpc = "rejected"
    /\ taskState = <<"rejected", "recorded", "pending", "pending">>
    /\ results = << TaskResult(2) >>

\* C29 -- Limiter start discipline: task() is called on the tasks in
\* submission order, on none of them twice, and only in a state where fewer
\* than `limit` of the tasks started before are still unsettled; and when no
\* task rejects, throttlePromises resolves only after it has called every task.
C29_StartDiscipline ==
    /\ invoked = [k \in 1..Len(invoked) |-> k]
    /\ \A i \in Tasks : load[i] # NotInvoked <=> i \in Range(invoked)
    /\ \A i \in Tasks : load[i] < limit
    /\ \A i \in Tasks : taskState[i] # "pending" <=> i \in Range(invoked)
    /\ ((\A i \in Tasks : taskState[i] # "rejected") /\ tpc = "resolved") =>
          invoked = [k \in Tasks |-> k]

\* Two at a time: every task after the first was called with one task in flight.
C29_Witness ==
    /\ limit = 2
    /\ tpc = "resolved"
    /\ invoked = <<1, 2, 3, 4>>
    /\ load = <<0, 1, 1, 1>>

(***************************************************************************)
(* Properties of a session after its navigation.                           *)
(***************************************************************************)
\* The observed session is inside extractDomainsFromPage.
Extracting == sess[Observed].phase \in {"init", "extract"}

\* C30 -- Extraction errors never trigger a retry: extractDomainsFromPage
\* never throws; once it has been called no further attempt is started and
\* the session does not reject; and after a failure thrown inside it, at the
\* first step or later, the session returns what was recorded, which may be
\* nothing.
C30_NoRetryAfterExtraction ==
    /\ [][(Extracting \/ ExtractionReturned) =>
            /\ sess'[Observed].launches = sess[Observed].launches
            /\ sess'[Observed].failures = sess[Observed].failures
            /\ sess'[Observed].phase \in {"init", "extract", "closing", "fulfilled"}
            /\ sess'[Observed].phase = "closing" => sess'[Observed].pending = "return"]_vars
    /\ [](failure = "thrown" => ExtractionReturned)
    /\ [](ExtractionReturned => sess[Observed].domains = sess[Observed].found)

\* initializeEmailChange failed in the first attempt and the session was
\* fulfilled with the empty set.
C30_Witness ==
    /\ provider = "smailpro"
    /\ sess[Observed].phase = "fulfilled"
    /\ iterations = 0
    /\ sess[Observed].launches = 1
    /\ sess[Observed].domains = {}

C32_CloseSwallowed ==
    [][(sess[Observed].phase = "closing" /\ sess'[Observed] # sess[Observed]
            /\ closeFailed') =>
        LET s == sess[Observed]
            t == sess'[Observed]
        IN  /\ s.pending = "return" =>
                /\ t.phase = "fulfilled"
                /\ t.domains = s.domains
                /\ t.launches = s.launches /\ t.failures = s.failures
                /\ t.retryCount = s.retryCount /\ t.attempt = s.attempt
            /\ t.lastFailure # "close" /\ t.lastError # "close" /\ t.error # "close"
            /\ t.failures <= s.failures + 1
            /\ t.failures = s.failures + 1 => t.lastFailure = "navigation"
            /\ t.open = s.open - 1]_vars

C32_Witness ==
    /\ closeFailed
    /\ sess[Observed].phase = "fulfilled"
    /\ sess[Observed].domains # {}
    /\ sess[Observed].launches = 1
    /\ sess[Observed].failures = 0

\* C34 -- Release and backoff: a smailpro session waits out its backoff delay
\* only after a failed navigation of a non-final attempt and with the browser
\* of that attempt still open, and calls close() on it only when the delay has
\* elapsed; a disposablemail or mailtemp session enters its backoff delay with
\* no browser open, coming either from a settled close() or from a failed
\* launch.
C34_ReleaseAndBackoff ==
    /\ [](\A e \in BROWSERS : sess[e].phase = "backoff" =>
            IF provider = "smailpro"
            THEN /\ sess[e].open = 1
                 /\ sess[e].lastFailure = "navigation"
                 /\ sess[e].attempt < MAX_RETRIES
            ELSE sess[e].open = 0)
    /\ [][\A e \in BROWSERS :
            /\ (sess[e].phase = "backoff" /\ sess'[e] # sess[e]
                    /\ provider = "smailpro") =>
                    /\ sess'[e].phase = "closing" /\ sess'[e].open = 1
                    /\ sess'[e].gap = RETRY_DELAY_MS * sess[e].attempt
            /\ (sess[e].phase # "backoff" /\ sess'[e].phase = "backoff") =>
                    IF provider = "smailpro"
                    THEN sess[e].phase = "navigate" /\ sess[e].open = 1
                    ELSE \/ sess[e].phase = "closing" /\ sess[e].open = 1
                         \/ sess[e].phase = "launch" /\ sess[e].open = 0
            /\ (sess[e].phase = "closing" /\ sess'[e] # sess[e]
                    /\ provider = "smailpro" /\ sess[e].pending = "retry"
                    /\ sess[e].attempt < MAX_RETRIES) =>
                    sess[e].gap = RETRY_DELAY_MS * sess[e].attempt]_vars

C34_Witness ==
    /\ provider = "smailpro"
    /\ \E e \in BROWSERS :
          /\ sess[e].phase = "closing" /\ sess[e].pending = "retry"
          /\ sess[e].open = 1 /\ sess[e].attempt = 2
          /\ sess[e].gap = RETRY_DELAY_MS * 2

(***************************************************************************)
(* updateTldList of src/src/fetch/tlds.ts.  A line of the IANA response is *)
(* a sequence of characters; the response body is the sequence of lines    *)
(* data.split('\n') gives, which is never empty.                           *)
(***************************************************************************)
TldLines ==
    { << >>, << "#", "a" >>, << "a" >>, << " ", "A", " " >>, << "0" >>,
      << "-", "a" >>, << "_" >> }

\* The most lines of a response.
MaxTldLines == 2

TldBodies == UNION { [1..k -> TldLines] : k \in 1..MaxTldLines }

\* fetch rejects, the status is not OK, response.text() rejects, or the body
\* is read.
TldResponses ==
    { [net |-> "error", ok |-> FALSE, lines |-> << >>],
      [net |-> "ok", ok |-> FALSE, lines |-> << >>],
      [net |-> "text-error", ok |-> TRUE, lines |-> << >>] }
    \cup { [net |-> "ok", ok |-> TRUE, lines |-> b] : b \in TldBodies }

\* fetchTldList throws.
FetchThrows(resp) == resp.net # "ok" \/ ~resp.ok

\* tld && !tld.startsWith('#')
NotBlankNorComment(tld) == tld # << >> /\ Head(tld) # "#"

\* The primary weight of a character in the collation of localeCompare:
\* punctuation, then digits, then letters of either case.
Primary(c) == CASE c = "-" -> 1 [] c = "0" -> 2 [] OTHER -> 3

RECURSIVE ComparePrimary(_, _)
ComparePrimary(a, b) ==
    IF a = << >> THEN (IF b = << >> THEN 0 ELSE -1)
    ELSE IF b = << >> THEN 1
    ELSE IF Primary(Head(a)) < Primary(Head(b)) THEN -1
    ELSE IF Primary(Head(a)) > Primary(Head(b)) THEN 1
    ELSE ComparePrimary(Tail(a), Tail(b))

\* Strings of equal primary weights: the lower case letter comes first.
RECURSIVE CompareCase(_, _)
CompareCase(a, b) ==
    IF a = << >> \/ b = << >> THEN 0
    ELSE IF Head(a) = Head(b) THEN CompareCase(Tail(a), Tail(b))
    ELSE IF Head(a) = "a" THEN -1 ELSE 1

\* a.localeCompare(b)
localeCompare(a, b) ==
    IF ComparePrimary(a, b) # 0 THEN ComparePrimary(a, b) ELSE CompareCase(a, b)

\* Array.prototype.sort is stable: x goes behind what does not sort after it.
RECURSIVE InsertSorted(_, _)
InsertSorted(sorted, x) ==
    IF sorted = << >> THEN << x >>
    ELSE IF localeCompare(Head(sorted), x) <= 0
         THEN << Head(sorted) >> \o InsertSorted(Tail(sorted), x)
         ELSE << x >> \o sorted

RECURSIVE SortTlds(_)
SortTlds(tlds) ==
    IF tlds = << >> THEN << >>
    ELSE InsertSorted(SortTlds(SubSeq(tlds, 1, Len(tlds) - 1)), tlds[Len(tlds)])

\* validTlds of processTlds: trimmed, blank and comment lines dropped, the
\* invalid ones dropped, sorted.
ValidTlds(tlds) ==
    SortTlds(SelectSeq(SelectSeq([i \in DOMAIN tlds |-> Trim(tlds[i])],
                                 NotBlankNorComment),
                       isValidTld))

\* The check of validTlds is left out.
NoneValidIgnored(validTlds) == FALSE

\* if (validTlds.length === 0) throw
NoneValid(validTlds) == Len(validTlds) = 0

\* Array.prototype.join(sep)
RECURSIVE Join(_, _)
Join(items, sep) ==
    IF items = << >> THEN << >>
    ELSE IF Len(items) = 1 THEN Head(items)
    ELSE Head(items) \o sep \o Join(Tail(items), sep)

\* generateTsFileContent: the literal of tldArray, each entry lower-cased and
\* quoted, between the text before it and the text after it.
generateTsFileContent(tlds) ==
    << "[" >>
    \o Join([i \in DOMAIN tlds |-> << "\"" >> \o ToLowerCase(tlds[i]) \o << "\"" >>],
            << ",", "\n" >>)
    \o << "]" >>

TldRest == UNCHANGED << fetchVars, scraperVars, observerVars, callVars, historyVars >>

\* updateTldList is started; no other program runs in its process.
TldInit ==
    /\ upc = "idle"
    /\ tldResponse = NoResponse
    /\ tsFile = Unwritten
    /\ txtFile = Unwritten
    /\ writes = [f \in OutputFiles |-> "none"]
    /\ allowlistSet = {}
    /\ disposables = {}
    /\ limit = MAX_CONCURRENT_REQUESTS
    /\ taskState = [i \in Tasks |-> "pending"]
    /\ taskDomains = [i \in Tasks |-> << >>]
    /\ fetchOutcome = [i \in Tasks |-> "none"]
    /\ results = << >>
    /\ executing = << >>
    /\ nextTask = 1
    /\ tpc = "idle"
    /\ awaited = << >>
    /\ awaitResult = "pending"
    /\ mpc = "init"
    /\ publishedDisposable = NotPublished
    /\ publishedAllow = NotPublished
    /\ provider = "none"
    /\ sess = [e \in BROWSERS |-> IdleSession]
    /\ dpc = "idle"
    /\ processed = NotProcessed
    /\ iterations = 0
    /\ failure = "none"
    /\ clean = TRUE
    /\ fn = "none"
    /\ arg = << >>
    /\ out = << >>
    /\ returned = FALSE
    /\ localAllow = {}
    /\ invoked = << >>
    /\ load = [i \in Tasks |-> NotInvoked]
    /\ fulfilledOrder = << >>
    /\ closeFailed = FALSE

\* updateTldList(): fetchTldList is called and awaits fetch.
UpdateStart ==
    /\ upc = "idle"
    /\ upc' = "fetch"
    /\ UNCHANGED << tldResponse, tsFile, txtFile, writes >>
    /\ TldRest

\* The fetch settles.  A throw of fetchTldList or of processTlds lands in the
\* catch of updateTldList, which calls process.exit(1); otherwise processTlds
\* awaits the mkdir calls.
TldFetchSettle ==
    /\ upc = "fetch"
    /\ \E resp \in TldResponses :
          /\ tldResponse' = resp
          /\ upc' = IF FetchThrows(resp) THEN "exit1"
                    ELSE IF NoneValid(ValidTlds(resp.lines)) THEN "exit1"
                    ELSE "mkdir"
    /\ UNCHANGED << tsFile, txtFile, writes >>
    /\ TldRest

\* Promise.all of the mkdir calls settles; then both writeFile calls are made.
MkdirSettle ==
    /\ upc = "mkdir"
    /\ \E made \in BOOLEAN :
          IF made
          THEN /\ upc' = "write"
               /\ writes' = [f \in OutputFiles |-> "pending"]
          ELSE /\ upc' = "exit1"
               /\ UNCHANGED writes
    /\ UNCHANGED << tldResponse, tsFile, txtFile >>
    /\ TldRest

\* One writeFile settles.  When it fails Promise.all rejects and the process
\* exits, whether the other write, if still under way, has landed or not.
WriteSettle(f) ==
    /\ upc = "write"
    /\ writes[f] = "pending"
    /\ \E written \in BOOLEAN, landed \in BOOLEAN :
          LET after == [g \in OutputFiles |->
                          IF g = f THEN (IF written THEN "written" ELSE "failed")
                          ELSE IF writes[g] = "pending" /\ ~written
                               THEN (IF landed THEN "written" ELSE "abandoned")
                               ELSE writes[g]]
              validTlds == ValidTlds(tldResponse.lines)
          IN  /\ writes' = after
              /\ upc' = IF ~written THEN "exit1"
                        ELSE IF \A g \in OutputFiles : after[g] = "written"
                             THEN "done" ELSE "write"
              /\ tsFile' = IF after["tlds.ts"] = "written"
                           THEN generateTsFileContent(validTlds) ELSE tsFile
              /\ txtFile' = IF after["tlds.txt"] = "written"
                            THEN Join(validTlds, << "\n" >>) ELSE txtFile
    /\ UNCHANGED tldResponse
    /\ TldRest

TldNext ==
    \/ UpdateStart
    \/ TldFetchSettle
    \/ MkdirSettle
    \/ \E f \in OutputFiles : WriteSettle(f)

TldSpec == TldInit /\ [][TldNext]_vars

\* A line of the response that is a valid TLD once trimmed, and is neither
\* blank nor a comment.
SomeValidLine ==
    \E i \in DOMAIN tldResponse.lines :
        LET tld == Trim(tldResponse.lines[i])
        IN  tld # << >> /\ Head(tld) # "#" /\ isValidTld(tld)

\* C33 -- The TLD generator writes nothing on failure: once the fetch has
\* settled, if it failed (transport error, non-OK status) or no line of the
\* response is a valid TLD after trimming and dropping blank and '#' lines,
\* the process has exited with status 1, no writeFile was called and neither
\* tlds.ts nor tlds.txt is written; a written file holds at least one TLD of
\* a response that was fetched.
C33_NothingOnFailure ==
    /\ (upc \notin {"idle", "fetch"} /\ (FetchThrows(tldResponse) \/ ~SomeValidLine)) =>
            /\ upc = "exit1"
            /\ tsFile = Unwritten /\ txtFile = Unwritten
            /\ \A f \in OutputFiles : writes[f] = "none"
    /\ (tsFile # Unwritten \/ txtFile # Unwritten) =>
            /\ ~FetchThrows(tldResponse) /\ SomeValidLine
            /\ tsFile # Unwritten => tsFile # generateTsFileContent(<< >>)
            /\ txtFile # Unwritten => txtFile # << >>
    /\ upc = "done" => tsFile # Unwritten /\ txtFile # Unwritten

C33_Witness ==
    /\ upc = "exit1"
    /\ ~FetchThrows(tldResponse)
    /\ ~SomeValidLine
    /\ \E i \in DOMAIN tldResponse.lines :
          NotBlankNorComment(Trim(tldResponse.lines[i]))
    /\ tsFile = Unwritten /\ txtFile = Unwritten

====
